---- MODULE Spec2Model ----
(***************************************************************************)
(* Label resolution and query-filter synthesis of the HubSpot middleware:  *)
(* the Value Index (services/value_discovery.py), the flat resolver        *)
(* (services/encyclopedia_resolver.py) and the group-scoped resolver       *)
(* (services/hierarchical_encyclopedia_resolver.py).                       *)
(*                                                                         *)
(* A Python str is a sequence of one-character strings, so that lower(),   *)
(* upper(), `in`, split() and rstrip() are computed, not assumed.  A       *)
(* Python dict is a sequence of [key, val] records in insertion order.     *)
(***************************************************************************)
EXTENDS Integers, Sequences, FiniteSets, TLC

VARIABLES
    flat_cache,      \* EncyclopediaResolver._encyclopedia_cache: object type -> the export loaded, or NoFile
    hier_cache,      \* HierarchicalEncyclopediaResolver._hierarchical_cache: object type -> the export loaded, or NoFile
    pc,              \* position of the running resolve_and_search call
    call,            \* arguments of the running call
    relevant_groups, \* hierarchical step 1
    query_analysis,  \* ANALYZE
    filters,         \* RESOLVE_FILTERS
    results,         \* EXECUTE: number of records returned by the collaborator
    search_calls,    \* requests the search collaborator received during the call
    stages,          \* stages the call has run, in order
    response,        \* what the call returned to its caller: <<the dict>>, or <<>> so far
    value_cache,     \* ValueDiscoveryService._value_cache entry of the object type: all_mappings
    vd_pc,           \* position of the caller of the Value Index lookups
    vd_property,     \* property_name of the lookup
    vd_input,        \* human_value handed to map_value_to_internal
    vd_internal,     \* result of map_value_to_internal
    vd_human,        \* result of map_internal_to_human
    now,             \* time.time()
    tasks,           \* the coroutines of the two services on the event loop
    started,         \* number of service calls started so far
    vd_value_cache,  \* ValueDiscoveryService._value_cache: cache key -> all_value_mappings
    vd_cache_expiry, \* ValueDiscoveryService._cache_expiry
    pd_cache,        \* PropertyDiscoveryService._cache: object type -> mappings
    pd_cache_expiry, \* PropertyDiscoveryService._cache_expiry
    fetched_at,      \* per service and key, the time at which the entry held was stored
    encyclopedia_dir, \* the <object_type>.json files on disk: object type -> content
    refresh_pc,      \* position of refresh_encyclopedia: the index of the object type exported next, 0 when idle
    encyclopedia,    \* the dict export_full_encyclopedia builds: object type -> entry
    export_failures, \* the collaborator requests that failed during the export, as <<object type, request>>
    refreshes        \* number of refreshes completed and persisted

vars == <<flat_cache, hier_cache, pc, call, relevant_groups, query_analysis, filters,
          results, search_calls, stages, response,
          value_cache, vd_pc, vd_property, vd_input, vd_internal, vd_human,
          now, tasks, started, vd_value_cache, vd_cache_expiry, pd_cache, pd_cache_expiry,
          fetched_at, encyclopedia_dir, refresh_pc, encyclopedia, export_failures, refreshes>>

refresh_vars == <<encyclopedia_dir, refresh_pc, encyclopedia, export_failures, refreshes>>

cache_vars == <<now, tasks, started, vd_value_cache, vd_cache_expiry, pd_cache,
                pd_cache_expiry, fetched_at>>

resolver_vars == <<flat_cache, hier_cache, pc, call, relevant_groups, query_analysis,
                   filters, results, search_calls, stages, response>>

vd_vars == <<value_cache, vd_pc, vd_property, vd_input, vd_internal, vd_human>>

(***************************************************************************)
(* Python str operations                                                   *)
(***************************************************************************)
LowerTable ==
    ("A" :> "a") @@ ("B" :> "b") @@ ("C" :> "c") @@ ("D" :> "d") @@ ("E" :> "e") @@
    ("F" :> "f") @@ ("G" :> "g") @@ ("H" :> "h") @@ ("I" :> "i") @@ ("J" :> "j") @@
    ("K" :> "k") @@ ("L" :> "l") @@ ("M" :> "m") @@ ("N" :> "n") @@ ("O" :> "o") @@
    ("P" :> "p") @@ ("Q" :> "q") @@ ("R" :> "r") @@ ("S" :> "s") @@ ("T" :> "t") @@
    ("U" :> "u") @@ ("V" :> "v") @@ ("W" :> "w") @@ ("X" :> "x") @@ ("Y" :> "y") @@
    ("Z" :> "z")

UpperTable ==
    ("a" :> "A") @@ ("b" :> "B") @@ ("c" :> "C") @@ ("d" :> "D") @@ ("e" :> "E") @@
    ("f" :> "F") @@ ("g" :> "G") @@ ("h" :> "H") @@ ("i" :> "I") @@ ("j" :> "J") @@
    ("k" :> "K") @@ ("l" :> "L") @@ ("m" :> "M") @@ ("n" :> "N") @@ ("o" :> "O") @@
    ("p" :> "P") @@ ("q" :> "Q") @@ ("r" :> "R") @@ ("s" :> "S") @@ ("t" :> "T") @@
    ("u" :> "U") @@ ("v" :> "V") @@ ("w" :> "W") @@ ("x" :> "X") @@ ("y" :> "Y") @@
    ("z" :> "Z")

Digits == {"0", "1", "2", "3", "4", "5", "6", "7", "8", "9"}

\* str.lower()
lower(s) == [i \in 1..Len(s) |-> IF s[i] \in DOMAIN LowerTable THEN LowerTable[s[i]] ELSE s[i]]

\* str.upper()
upper(s) == [i \in 1..Len(s) |-> IF s[i] \in DOMAIN UpperTable THEN UpperTable[s[i]] ELSE s[i]]

\* `sub in s`: sub occurs in s as a contiguous run (the empty string occurs in every string)
StrIn(sub, s) ==
    \E i \in 0..(Len(s) - Len(sub)) : \A j \in 1..Len(sub) : s[i + j] = sub[j]

\* any(term in s for term in terms)
AnyIn(terms, s) == \E k \in 1..Len(terms) : StrIn(terms[k], s)

IsSpace(c) == c = " "

\* \w of the re module
IsWordChar(c) == c \in DOMAIN LowerTable \/ c \in DOMAIN UpperTable \/ c \in Digits \/ c = "_"

\* str.strip()
RECURSIVE strip(_)
strip(s) ==
    IF s = <<>> THEN s
    ELSE IF IsSpace(s[1]) THEN strip(Tail(s))
    ELSE IF IsSpace(s[Len(s)]) THEN strip(SubSeq(s, 1, Len(s) - 1))
    ELSE s

\* str.rstrip('s')
RECURSIVE rstrip_s(_)
rstrip_s(s) ==
    IF s # <<>> /\ s[Len(s)] = "s" THEN rstrip_s(SubSeq(s, 1, Len(s) - 1)) ELSE s

\* str.replace(old, new) for single characters
replace(s, old, new) == [i \in 1..Len(s) |-> IF s[i] = old THEN new ELSE s[i]]

\* str.split(sep) for a one-character sep: the pieces between separators, empty ones kept
RECURSIVE SplitAt(_, _, _)
SplitAt(s, sep, cur) ==
    IF s = <<>> THEN <<cur>>
    ELSE IF s[1] = sep THEN <<cur>> \o SplitAt(Tail(s), sep, <<>>)
    ELSE SplitAt(Tail(s), sep, Append(cur, s[1]))

split_on(s, sep) == SplitAt(s, sep, <<>>)

\* str.split(): the whitespace-separated words, empty ones dropped
split(s) == SelectSeq(split_on(s, " "), LAMBDA w : w # <<>>)

\* set(re.findall(r'\b\w+\b', s)): the maximal runs of word characters
RECURSIVE WordRuns(_, _)
WordRuns(s, cur) ==
    IF s = <<>> THEN (IF cur = <<>> THEN {} ELSE {cur})
    ELSE IF IsWordChar(s[1]) THEN WordRuns(Tail(s), Append(cur, s[1]))
    ELSE (IF cur = <<>> THEN {} ELSE {cur}) \cup WordRuns(Tail(s), <<>>)

findall_words(s) == WordRuns(s, <<>>)

SeqToSet(s) == {s[i] : i \in 1..Len(s)}

(***************************************************************************)
(* Python dict operations (insertion-ordered)                              *)
(***************************************************************************)
EmptyDict == <<>>

HasKey(d, k) == \E i \in 1..Len(d) : d[i].key = k

\* d[k]
Get(d, k) == d[CHOOSE i \in 1..Len(d) : d[i].key = k].val

\* d[k] = v: a new key is appended, an existing key keeps its place and takes the new value
Put(d, k, v) ==
    IF HasKey(d, k)
    THEN [i \in 1..Len(d) |-> IF d[i].key = k THEN [key |-> k, val |-> v] ELSE d[i]]
    ELSE Append(d, [key |-> k, val |-> v])

\* d.update(e)
RECURSIVE Update(_, _)
Update(d, e) == IF e = <<>> THEN d ELSE Update(Put(d, e[1].key, e[1].val), Tail(e))

(***************************************************************************)
(* Property names                                                          *)
(***************************************************************************)
P_hubspot_owner_id == <<"h","u","b","s","p","o","t","_","o","w","n","e","r","_","i","d">>
P_company_owner == <<"c","o","m","p","a","n","y","_","o","w","n","e","r">>
P_account_status == <<"a","c","c","o","u","n","t","_","s","t","a","t","u","s">>
P_industry == <<"i","n","d","u","s","t","r","y">>
P_customer_tier == <<"c","u","s","t","o","m","e","r","_","t","i","e","r">>
P_city == <<"c","i","t","y">>
P_state == <<"s","t","a","t","e">>

(***************************************************************************)
(* Value Index build (ValueDiscoveryService)                               *)
(***************************************************************************)
\* The keys _discover_owners writes for one owner record, in the order it writes them
OwnerKeys(owner) ==
    LET full_name == strip(owner.firstName \o <<" ">> \o owner.lastName)
        username  == split_on(owner.email, "@")[1]
    IN  (IF full_name # <<>> THEN <<full_name>> ELSE <<>>)
        \o (IF owner.firstName # <<>> THEN <<owner.firstName>> ELSE <<>>)
        \o (IF owner.email # <<>> THEN <<owner.email, username>> ELSE <<>>)

RECURSIVE PutAll(_, _, _)
PutAll(d, keys, v) == IF keys = <<>> THEN d ELSE PutAll(Put(d, keys[1], v), Tail(keys), v)

\* _discover_owners on the owner directory `owners` (the fetch succeeded)
RECURSIVE OwnerMappingFrom(_, _)
OwnerMappingFrom(owners, owner_mapping) ==
    IF owners = <<>> THEN owner_mapping
    ELSE OwnerMappingFrom(Tail(owners),
            IF owners[1].id # <<>>
            THEN PutAll(owner_mapping, OwnerKeys(owners[1]), owners[1].id)
            ELSE owner_mapping)

discover_owners(owners) == OwnerMappingFrom(owners, EmptyDict)

EnumerableTypes == {"enumeration", "radio", "select", "checkbox"}

\* The option_mapping _discover_property_options builds for one property
RECURSIVE OptionMappingFrom(_, _)
OptionMappingFrom(options, option_mapping) ==
    IF options = <<>> THEN option_mapping
    ELSE LET label == options[1].label
             value == options[1].value
         IN  OptionMappingFrom(Tail(options),
                IF label # <<>> /\ value # <<>>
                THEN Put(Put(Put(option_mapping, label, value), lower(label), value),
                         strip(label), value)
                ELSE option_mapping)

\* _discover_property_options on the schema `properties` (the fetch succeeded)
RECURSIVE PropertyOptionsFrom(_, _)
PropertyOptionsFrom(properties, property_options) ==
    IF properties = <<>> THEN property_options
    ELSE LET prop == properties[1]
             option_mapping == OptionMappingFrom(prop.options, EmptyDict)
         IN  PropertyOptionsFrom(Tail(properties),
                IF prop.name # <<>> /\ prop.options # <<>>
                   /\ prop.type \in EnumerableTypes /\ option_mapping # <<>>
                THEN Put(property_options, prop.name, option_mapping)
                ELSE property_options)

discover_property_options(properties) == PropertyOptionsFrom(properties, EmptyDict)

\* discover_all_property_values on a cache miss with both fetches succeeding
discover_all_property_values(owners, properties) ==
    LET owners_mapping == discover_owners(owners)
        with_owners ==
            IF owners_mapping # <<>>
            THEN Put(Put(EmptyDict, P_hubspot_owner_id, owners_mapping),
                     P_company_owner, owners_mapping)
            ELSE EmptyDict
    IN  Update(with_owners, discover_property_options(properties))

(***************************************************************************)
(* Filters.  `category` is a ghost field: the resolver that produced the   *)
(* filter.  The request sent to the collaborator carries the other three.  *)
(***************************************************************************)
Filter(prop, op, value, cat) ==
    [propertyName |-> prop, operator |-> op, value |-> value, category |-> cat]

CategoryOrder == <<"owner", "status", "industry", "tier", "location", "date", "generic">>

CategoryRank(cat) == CHOOSE i \in 1..Len(CategoryOrder) : CategoryOrder[i] = cat

OwnerProps == <<P_hubspot_owner_id, P_company_owner>>

(***************************************************************************)
(* EncyclopediaResolver: the category resolvers.  `query` is the           *)
(* lowercased query, `value_mappings` the dict property -> ValueMapping.   *)
(***************************************************************************)
owner_indicators == <<<<"o","w","n","e","r">>, <<"o","w","n","e","d"," ","b","y">>, <<"'","s">>, <<"p","o","r","t","f","o","l","i","o">>>>

has_owner_context(query) == AnyIn(owner_indicators, query)

\* line 230: the label, or the label with 's, occurs in the query
ExactOwnerMatch(label, query) ==
    StrIn(lower(label), query) \/ StrIn(lower(label) \o <<"'","s">>, query)

\* lines 235-237: the first name of a multi-word label occurs with 's
PartialOwnerMatch(label, query) ==
    /\ ~ExactOwnerMatch(label, query)
    /\ StrIn(<<" ">>, label)
    /\ StrIn(<<"'","s">>, query)
    /\ StrIn(lower(split(label)[1]) \o <<"'","s">>, query)

exact_matches(owner_mappings, query) ==
    SelectSeq(owner_mappings, LAMBDA e : ExactOwnerMatch(e.key, query))

partial_matches(owner_mappings, query) ==
    SelectSeq(owner_mappings, LAMBDA e : PartialOwnerMatch(e.key, query))

\* Faulty variant: the first partial match is taken, whatever its length
longest_match_first(matches) == matches[1]

\* max(partial_matches, key=lambda x: len(x[2])): the first entry of maximal length
longest_match(matches) ==
    matches[CHOOSE i \in 1..Len(matches) :
                /\ \A j \in 1..Len(matches) : Len(matches[j].key) <= Len(matches[i].key)
                /\ \A j \in 1..(i - 1) : Len(matches[j].key) < Len(matches[i].key)]

\* One iteration of the loop over owner_prop (lines 209-258): the filters it returns,
\* or <<>> when the loop goes on to the next owner_prop
OwnerFiltersFor(owner_prop, query, value_mappings) ==
    IF ~HasKey(value_mappings, owner_prop) \/ ~has_owner_context(query) THEN <<>>
    ELSE LET owner_mappings == Get(value_mappings, owner_prop)
             exact   == exact_matches(owner_mappings, query)
             partial == partial_matches(owner_mappings, query)
         IN  IF exact # <<>> THEN <<Filter(owner_prop, "EQ", exact[1].val, "owner")>>
             ELSE IF partial # <<>>
                  THEN <<Filter(owner_prop, "EQ", longest_match(partial).val, "owner")>>
                  ELSE <<>>

\* Faulty variant: the loop over owner_prop does not return at the first filter
resolve_owner_queries_both(query, value_mappings) ==
    OwnerFiltersFor(OwnerProps[1], query, value_mappings)
    \o OwnerFiltersFor(OwnerProps[2], query, value_mappings)

resolve_owner_queries(query, value_mappings) ==
    LET first  == OwnerFiltersFor(OwnerProps[1], query, value_mappings)
        second == OwnerFiltersFor(OwnerProps[2], query, value_mappings)
    IN  IF first # <<>> THEN first ELSE second

\* The first entry of a ValueMapping that passes Test, as a one-filter list
FirstMatchFilter(prop, mapping, Test(_), cat) ==
    LET hits == SelectSeq(mapping, Test)
    IN  IF hits = <<>> THEN <<>> ELSE <<Filter(prop, "EQ", hits[1].val, cat)>>

\* Faulty variant: the loop over the labels does not break at the first match
resolve_status_queries_all(query, value_mappings) ==
    IF ~HasKey(value_mappings, P_account_status) THEN <<>>
    ELSE LET hits == SelectSeq(Get(value_mappings, P_account_status),
                               LAMBDA e : StrIn(lower(e.key), query))
         IN  [i \in 1..Len(hits) |-> Filter(P_account_status, "EQ", hits[i].val, "status")]

resolve_status_queries(query, value_mappings) ==
    IF ~HasKey(value_mappings, P_account_status) THEN <<>>
    ELSE FirstMatchFilter(P_account_status, Get(value_mappings, P_account_status),
                          LAMBDA e : StrIn(lower(e.key), query), "status")

\* lines 290-294; None is left out, the empty term is dropped by `if term`
industry_terms(industry_label) ==
    SelectSeq(<<lower(industry_label), rstrip_s(lower(industry_label))>>
              \o (IF StrIn(<<"t","e","c","h","n","o","l","o","g","y">>, lower(industry_label)) THEN <<<<"t","e","c","h">>>> ELSE <<>>),
              LAMBDA t : t # <<>>)

resolve_industry_queries(query, value_mappings) ==
    IF ~HasKey(value_mappings, P_industry) THEN <<>>
    ELSE FirstMatchFilter(P_industry, Get(value_mappings, P_industry),
                          LAMBDA e : AnyIn(industry_terms(e.key), query), "industry")

tier_terms ==
    <<[key |-> <<"e","n","t","e","r","p","r","i","s","e">>,   val |-> <<<<"e","n","t","e","r","p","r","i","s","e">>, <<"l","a","r","g","e">>, <<"b","i","g">>>>],
      [key |-> <<"s","m","a","l","l">>,        val |-> <<<<"s","m","a","l","l">>, <<"s","t","a","r","t","u","p">>>>],
      [key |-> <<"p","r","o","f","e","s","s","i","o","n","a","l">>, val |-> <<<<"p","r","o","f","e","s","s","i","o","n","a","l">>, <<"p","r","o">>>>],
      [key |-> <<"s","t","a","n","d","a","r","d">>,     val |-> <<<<"s","t","a","n","d","a","r","d">>, <<"r","e","g","u","l","a","r">>>>]>>

\* tier_terms.get(tier_lower, [tier_lower])
search_terms(tier_label) ==
    IF HasKey(tier_terms, lower(tier_label))
    THEN Get(tier_terms, lower(tier_label))
    ELSE <<lower(tier_label)>>

resolve_tier_queries(query, value_mappings) ==
    IF ~HasKey(value_mappings, P_customer_tier) THEN <<>>
    ELSE FirstMatchFilter(P_customer_tier, Get(value_mappings, P_customer_tier),
                          LAMBDA e : AnyIn(search_terms(e.key), query), "tier")

cities ==
    <<[key |-> <<"d","a","l","l","a","s">>,         val |-> <<"D","a","l","l","a","s">>],
      [key |-> <<"t","e","x","a","s">>,          val |-> <<"T","X">>],
      [key |-> <<"h","o","u","s","t","o","n">>,        val |-> <<"H","o","u","s","t","o","n">>],
      [key |-> <<"a","u","s","t","i","n">>,         val |-> <<"A","u","s","t","i","n">>],
      [key |-> <<"s","a","n"," ","a","n","t","o","n","i","o">>,    val |-> <<"S","a","n"," ","A","n","t","o","n","i","o">>],
      [key |-> <<"n","e","w"," ","y","o","r","k">>,       val |-> <<"N","e","w"," ","Y","o","r","k">>],
      [key |-> <<"c","h","i","c","a","g","o">>,        val |-> <<"C","h","i","c","a","g","o">>],
      [key |-> <<"l","o","s"," ","a","n","g","e","l","e","s">>,    val |-> <<"L","o","s"," ","A","n","g","e","l","e","s">>],
      [key |-> <<"m","i","a","m","i">>,          val |-> <<"M","i","a","m","i">>],
      [key |-> <<"a","t","l","a","n","t","a">>,        val |-> <<"A","t","l","a","n","t","a">>],
      [key |-> <<"d","e","n","v","e","r">>,         val |-> <<"D","e","n","v","e","r">>],
      [key |-> <<"s","e","a","t","t","l","e">>,        val |-> <<"S","e","a","t","t","l","e">>],
      [key |-> <<"p","o","r","t","l","a","n","d">>,       val |-> <<"P","o","r","t","l","a","n","d">>],
      [key |-> <<"p","h","o","e","n","i","x">>,        val |-> <<"P","h","o","e","n","i","x">>],
      [key |-> <<"s","a","l","t"," ","l","a","k","e"," ","c","i","t","y">>, val |-> <<"S","a","l","t"," ","L","a","k","e"," ","C","i","t","y">>],
      [key |-> <<"p","r","o","v","o">>,          val |-> <<"P","r","o","v","o">>],
      [key |-> <<"u","t","a","h">>,           val |-> <<"U","T">>]>>

StateCodeLen == 2

\* lines 368-382: the entries of `cities` found in the query, split by the length of the value
city_filters(query) ==
    LET hits == SelectSeq(cities, LAMBDA c : StrIn(c.key, query) /\ Len(c.val) # StateCodeLen)
    IN  [i \in 1..Len(hits) |-> Filter(P_city, "EQ", hits[i].val, "location")]

state_filters(query) ==
    LET hits == SelectSeq(cities, LAMBDA c : StrIn(c.key, query) /\ Len(c.val) = StateCodeLen)
    IN  [i \in 1..Len(hits) |-> Filter(P_state, "EQ", hits[i].val, "location")]

resolve_location_queries(query, value_mappings) ==
    IF city_filters(query) # <<>> THEN city_filters(query) ELSE state_filters(query)

date_renewal_terms ==
    <<<<"r","e","n","e","w","a","l">>, <<"r","e","n","e","w">>, <<"t","e","x","t","i","n","g"," ","r","e","n","e","w","a","l">>, <<"t","e","x","t"," ","r","e","n","e","w","a","l">>, <<"u","p","c","o","m","i","n","g"," ","r","e","n","e","w","a","l">>>>

date_property_tokens == <<<<"r","e","n","e","w","a","l">>, <<"r","e","n","e","w">>, <<"n","e","x","t","_">>, <<"d","u","e">>, <<"e","x","p","i","r","e">>>>

\* lines 424-427
date_properties(value_mappings) ==
    SelectSeq(value_mappings, LAMBDA p : AnyIn(date_property_tokens, lower(p.key)))

\* lines 422-439: the loop breaks after the first date property, which gets a filter
\* only when the query says "upcoming" or "next"
resolve_date_queries(query, value_mappings) ==
    IF AnyIn(date_renewal_terms, query) /\ date_properties(value_mappings) # <<>>
       /\ (StrIn(<<"u","p","c","o","m","i","n","g">>, query) \/ StrIn(<<"n","e","x","t">>, query))
    THEN <<Filter(date_properties(value_mappings)[1].key, "HAS_PROPERTY", <<>>, "date")>>
    ELSE <<>>

generic_skipped == {P_hubspot_owner_id, P_company_owner, P_account_status, P_industry,
                    P_customer_tier}

MinGenericLabelLen == 2

RECURSIVE GenericFrom(_, _)
GenericFrom(query, props) ==
    IF props = <<>> THEN <<>>
    ELSE (IF props[1].key \in generic_skipped THEN <<>>
          ELSE FirstMatchFilter(props[1].key, props[1].val,
                   LAMBDA e : Len(e.key) > MinGenericLabelLen /\ StrIn(lower(e.key), query),
                   "generic"))
         \o GenericFrom(query, Tail(props))

resolve_generic_queries(query, value_mappings) == GenericFrom(query, value_mappings)

\* self._encyclopedia_cache.get(object_type, {}): `loaded` is the truth value of the entry
NoData == [loaded |-> FALSE, value_mappings |-> EmptyDict, groups |-> EmptyDict]

\* Faulty variant: the location resolver is called before the status resolver
resolve_query_to_filters_location_first(encyclopedia_data, user_query) ==
    LET query_lower == lower(user_query)
        value_mappings == encyclopedia_data.value_mappings
    IN  IF ~encyclopedia_data.loaded THEN <<>>
        ELSE resolve_owner_queries(query_lower, value_mappings)
             \o resolve_location_queries(query_lower, value_mappings)
             \o resolve_status_queries(query_lower, value_mappings)
             \o resolve_industry_queries(query_lower, value_mappings)
             \o resolve_tier_queries(query_lower, value_mappings)
             \o resolve_date_queries(query_lower, value_mappings)
             \o resolve_generic_queries(query_lower, value_mappings)

\* resolve_query_to_filters; encyclopedia_data is the cache entry of the object type
resolve_query_to_filters(encyclopedia_data, user_query) ==
    LET query_lower == lower(user_query)
        value_mappings == encyclopedia_data.value_mappings
    IN  IF ~encyclopedia_data.loaded THEN <<>>
        ELSE resolve_owner_queries(query_lower, value_mappings)
             \o resolve_status_queries(query_lower, value_mappings)
             \o resolve_industry_queries(query_lower, value_mappings)
             \o resolve_tier_queries(query_lower, value_mappings)
             \o resolve_location_queries(query_lower, value_mappings)
             \o resolve_date_queries(query_lower, value_mappings)
             \o resolve_generic_queries(query_lower, value_mappings)

\* _analyze_query_comprehensively (flat resolver)
analysis_renewal_terms == <<<<"r","e","n","e","w","a","l">>, <<"r","e","n","e","w">>, <<"t","e","x","t","i","n","g"," ","r","e","n","e","w","a","l">>, <<"u","p","c","o","m","i","n","g">>, <<"n","e","x","t">>>>

analysis_location_terms == <<<<"d","a","l","l","a","s">>, <<"t","e","x","a","s">>, <<"h","o","u","s","t","o","n">>, <<"a","u","s","t","i","n">>, <<"u","t","a","h">>, <<"p","r","o","v","o">>>>

EmptyAnalysis ==
    [owner_terms |-> <<>>, status_terms |-> <<>>, date_terms |-> <<>>, location_terms |-> <<>>]

TermsIn(terms, query) == SelectSeq(terms, LAMBDA t : StrIn(t, query))

LabelsOf(mapping) == [i \in 1..Len(mapping) |-> mapping[i].key]

OwnerTermsFor(owner_prop, query_lower, value_mappings) ==
    IF ~HasKey(value_mappings, owner_prop) THEN <<>>
    ELSE SelectSeq(LabelsOf(Get(value_mappings, owner_prop)),
                   LAMBDA l : ExactOwnerMatch(l, query_lower))

analyze_query_comprehensively(encyclopedia_data, user_query) ==
    LET query_lower == lower(user_query)
        value_mappings == encyclopedia_data.value_mappings
    IN  IF ~encyclopedia_data.loaded THEN EmptyAnalysis
        ELSE [owner_terms |-> OwnerTermsFor(OwnerProps[1], query_lower, value_mappings)
                              \o OwnerTermsFor(OwnerProps[2], query_lower, value_mappings),
              status_terms |->
                  IF HasKey(value_mappings, P_account_status)
                  THEN SelectSeq(LabelsOf(Get(value_mappings, P_account_status)),
                                 LAMBDA l : StrIn(lower(l), query_lower))
                  ELSE <<>>,
              date_terms |-> TermsIn(analysis_renewal_terms, query_lower),
              location_terms |-> TermsIn(analysis_location_terms, query_lower)]

\* One appended insight: which sentence, and the term it quotes
Insight(kind, term) == [kind |-> kind, term |-> term]

\* _generate_data_insights; the note is the joined list, None (<<>>) when the list is empty.
\* `result_list` holds, per record, whether next_renewal_date is populated
generate_data_insights(analysis, result_list) ==
    LET total_results == Len(result_list)
        companies_with_dates == Len(SelectSeq(result_list, LAMBDA r : r.next_renewal_date))
    IN  IF total_results = 0
        THEN IF analysis.status_terms # <<>>
             THEN <<Insight("no_status_results", analysis.status_terms[1])>>
             ELSE IF analysis.date_terms # <<>>
                  THEN <<Insight("no_renewal_results", <<>>)>>
                  ELSE <<>>
        ELSE IF analysis.owner_terms # <<>> /\ analysis.date_terms # <<>>
             THEN <<Insight("found_for_owner", analysis.owner_terms[1]),
                    IF companies_with_dates = 0
                    THEN Insight("none_have_dates", <<>>)
                    ELSE Insight("some_have_dates", <<>>)>>
             ELSE <<>>

(***************************************************************************)
(* HierarchicalEncyclopediaResolver.  groups: dict group_name ->           *)
(* [display_name, properties: dict name -> [label, value_mappings]].       *)
(***************************************************************************)
RECURSIVE PropertyKeywords(_)
PropertyKeywords(properties) ==
    IF properties = <<>> THEN {}
    ELSE SeqToSet(split_on(lower(properties[1].key), "_"))
         \cup SeqToSet(split(lower(properties[1].val.label)))
         \cup PropertyKeywords(Tail(properties))

\* _build_group_keywords: the keyword set of one group
build_group_keywords(group_data) ==
    SeqToSet(split(lower(group_data.display_name))) \cup PropertyKeywords(group_data.properties)

\* Faulty variant: no bonus for a query word found in the display name
relevance_score_no_bonus(query_words, group_data) ==
    Cardinality(query_words \cap build_group_keywords(group_data))

\* lines 116-124
relevance_score(query_words, group_data) ==
    Cardinality(query_words \cap build_group_keywords(group_data))
    + 2 * Cardinality({w \in query_words : StrIn(w, lower(group_data.display_name))})

GroupInfo(entry, score) ==
    [name |-> entry.key, display_name |-> entry.val.display_name,
     properties |-> entry.val.properties, relevance_score |-> score]

\* Faulty variant: the scoring groups are left in discovery order
SortByScore_unsorted(infos) == infos

\* list.sort(key=relevance_score, reverse=True): stable, the first of the highest comes first
RECURSIVE SortByScore(_)
SortByScore(infos) ==
    IF infos = <<>> THEN <<>>
    ELSE LET i == CHOOSE k \in 1..Len(infos) :
                    /\ \A j \in 1..Len(infos) : infos[j].relevance_score <= infos[k].relevance_score
                    /\ \A j \in 1..(k - 1) : infos[j].relevance_score < infos[k].relevance_score
         IN  <<infos[i]>> \o SortByScore(SubSeq(infos, 1, i - 1) \o SubSeq(infos, i + 1, Len(infos)))

common_groups ==
    <<<<"c","o","m","p","a","n","y","_","i","n","f","o","r","m","a","t","i","o","n">>, <<"c","o","m","p","a","n","y","i","n","f","o","r","m","a","t","i","o","n">>, <<"b","i","l","l","i","n","g","_","i","n","f","o","r","m","a","t","i","o","n">>,
      <<"c","u","s","t","o","m","e","r","_","s","u","c","c","e","s","s">>>>

MaxRelevantGroups == 5

Take(s, n) == SubSeq(s, 1, IF Len(s) < n THEN Len(s) ELSE n)

identify_relevant_groups(hierarchical_data, user_query) ==
    LET query_words == findall_words(lower(user_query))
        groups == hierarchical_data.groups
        scored == [i \in 1..Len(groups) |->
                      GroupInfo(groups[i], relevance_score(query_words, groups[i].val))]
        relevant == SortByScore(SelectSeq(scored, LAMBDA g : g.relevance_score > 0))
        present == SelectSeq(common_groups, LAMBDA n : HasKey(groups, n))
        fallback == [i \in 1..Len(present) |->
                        GroupInfo([key |-> present[i], val |-> Get(groups, present[i])], 0)]
    IN  Take(IF relevant # <<>> THEN relevant ELSE fallback, MaxRelevantGroups)

\* _analyze_query_hierarchically over the properties of one group
RECURSIVE AnalyzeProperties(_, _, _)
AnalyzeProperties(properties, query_lower, analysis) ==
    IF properties = <<>> THEN analysis
    ELSE LET label == properties[1].val.label
             prop_label_lower == lower(label)
             hit == AnyIn(split(query_lower), prop_label_lower)
             next ==
                IF ~hit THEN analysis
                ELSE IF StrIn(<<"o","w","n","e","r">>, prop_label_lower)
                     THEN [analysis EXCEPT !.owner_terms = Append(@, label)]
                ELSE IF StrIn(<<"s","t","a","t","u","s">>, prop_label_lower) \/ StrIn(<<"s","t","a","g","e">>, prop_label_lower)
                     THEN [analysis EXCEPT !.status_terms = Append(@, label)]
                ELSE IF StrIn(<<"d","a","t","e">>, prop_label_lower) \/ StrIn(<<"r","e","n","e","w","a","l">>, prop_label_lower)
                     THEN [analysis EXCEPT !.date_terms = Append(@, label)]
                ELSE analysis
         IN  AnalyzeProperties(Tail(properties), query_lower, next)

RECURSIVE AnalyzeGroups(_, _, _)
AnalyzeGroups(groups, query_lower, analysis) ==
    IF groups = <<>> THEN analysis
    ELSE AnalyzeGroups(Tail(groups), query_lower,
                       AnalyzeProperties(groups[1].properties, query_lower, analysis))

analyze_query_hierarchically(user_query, groups) ==
    AnalyzeGroups(groups, lower(user_query), EmptyAnalysis)

\* prop_info.get("value_mappings") is truthy
HasValueMappings(prop_info) == prop_info.value_mappings # <<>>

\* lines 232-245: the owner filter the identity hint yields on one owner property, or <<>>
MyNameFilter(query, prop_name, owner_mappings, user_email) ==
    IF (StrIn(<<"m","y"," ","n","a","m","e">>, query) \/ StrIn(<<"i","n"," ","m","y"," ","n","a","m","e">>, query))
       /\ user_email # <<>> /\ StrIn(<<"@">>, user_email)
    THEN LET email_name  == lower(split_on(user_email, "@")[1])
             email_parts == replace(replace(email_name, ".", " "), "_", " ")
         IN  FirstMatchFilter(prop_name, owner_mappings,
                 LAMBDA e : StrIn(email_parts, lower(e.key))
                            \/ AnyIn(split(email_parts), lower(e.key)),
                 "owner")
    ELSE <<>>

\* lines 248-256: the filter an owner label named in the query yields, or <<>>
NamedOwnerFilter(query, prop_name, owner_mappings) ==
    FirstMatchFilter(prop_name, owner_mappings, LAMBDA e : ExactOwnerMatch(e.key, query), "owner")

RECURSIVE resolve_owner_in_group(_, _, _)
resolve_owner_in_group(query, properties, user_email) ==
    IF properties = <<>> THEN <<>>
    ELSE LET prop_name == properties[1].key
             prop_info == properties[1].val
             mine  == MyNameFilter(query, prop_name, prop_info.value_mappings, user_email)
             named == NamedOwnerFilter(query, prop_name, prop_info.value_mappings)
         IN  IF StrIn(<<"o","w","n","e","r">>, lower(prop_info.label)) /\ HasValueMappings(prop_info)
                /\ (mine # <<>> \/ named # <<>>)
             THEN (IF mine # <<>> THEN mine ELSE named)
             ELSE resolve_owner_in_group(query, Tail(properties), user_email)

RECURSIVE resolve_status_in_group(_, _)
resolve_status_in_group(query, properties) ==
    IF properties = <<>> THEN <<>>
    ELSE LET prop_info == properties[1].val
             prop_label_lower == lower(prop_info.label)
             hit == FirstMatchFilter(properties[1].key, prop_info.value_mappings,
                                     LAMBDA e : StrIn(lower(e.key), query), "status")
         IN  IF (StrIn(<<"s","t","a","t","u","s">>, prop_label_lower) \/ StrIn(<<"s","t","a","g","e">>, prop_label_lower))
                /\ HasValueMappings(prop_info) /\ hit # <<>>
             THEN hit
             ELSE resolve_status_in_group(query, Tail(properties))

group_renewal_terms == <<<<"r","e","n","e","w","a","l">>, <<"r","e","n","e","w">>, <<"t","e","x","t","i","n","g"," ","r","e","n","e","w","a","l">>, <<"u","p","c","o","m","i","n","g">>>>

\* lines 288-309: the first renewal property met returns at once, so the list never
\* holds two entries for insert(0, ...) to reorder
resolve_date_in_group(query, properties) ==
    LET renewal_props ==
            SelectSeq(properties, LAMBDA p : StrIn(<<"r","e","n","e","w","a","l">>, lower(p.val.label))
                                              \/ StrIn(<<"r","e","n","e","w">>, lower(p.val.label)))
    IN  IF AnyIn(group_renewal_terms, query) /\ renewal_props # <<>>
        THEN <<Filter(renewal_props[1].key, "HAS_PROPERTY", <<>>, "date")>>
        ELSE <<>>

\* The filters one group yields (lines 200-212)
GroupFilters(query_lower, group, user_email) ==
    resolve_owner_in_group(query_lower, group.properties, user_email)
    \o resolve_status_in_group(query_lower, group.properties)
    \o resolve_date_in_group(query_lower, group.properties)

RECURSIVE FirstGroupFilters(_, _, _)
FirstGroupFilters(query_lower, groups, user_email) ==
    IF groups = <<>> THEN <<>>
    ELSE IF GroupFilters(query_lower, groups[1], user_email) # <<>>
         THEN GroupFilters(query_lower, groups[1], user_email)
         ELSE FirstGroupFilters(query_lower, Tail(groups), user_email)

RECURSIVE AllGroupFilters(_, _, _)
AllGroupFilters(query_lower, groups, user_email) ==
    IF groups = <<>> THEN <<>>
    ELSE GroupFilters(query_lower, groups[1], user_email)
         \o AllGroupFilters(query_lower, Tail(groups), user_email)

\* Faulty variant: the loop over the groups does not break at the first group with filters
resolve_query_to_filters_hierarchical_all_groups(user_query, groups, user_email) ==
    AllGroupFilters(lower(user_query), groups, user_email)

resolve_query_to_filters_hierarchical(user_query, groups, user_email) ==
    FirstGroupFilters(lower(user_query), groups, user_email)

\* _generate_hierarchical_insights
generate_hierarchical_insights(analysis, result_list, groups) ==
    <<Insight("searched_groups", <<>>)>>
    \o (IF Len(result_list) = 0
        THEN <<Insight("no_results", <<>>)>>
             \o (IF analysis.owner_terms # <<>> THEN <<Insight("verify_owner", <<>>)>> ELSE <<>>)
             \o (IF analysis.date_terms # <<>> THEN <<Insight("dates_unpopulated", <<>>)>> ELSE <<>>)
        ELSE IF analysis.owner_terms # <<>> /\ analysis.date_terms # <<>>
             THEN <<Insight("found_matching", <<>>)>>
             ELSE <<>>)

(***************************************************************************)
(* ValueDiscoveryService: label <-> internal value lookups                 *)
(***************************************************************************)
\* Faulty variant: only the exact match is tried
map_value_to_internal_exact_only(value_mapping, human_value) ==
    IF HasKey(value_mapping, human_value) THEN Get(value_mapping, human_value)
    ELSE human_value

\* Faulty variant: an unmatched value comes back lowercased
map_value_to_internal_lowercased(value_mapping, human_value) ==
    LET human_value_lower == lower(human_value)
        partial == SelectSeq(value_mapping,
                             LAMBDA e : StrIn(human_value_lower, lower(e.key))
                                        \/ StrIn(lower(e.key), human_value_lower))
    IN  IF HasKey(value_mapping, human_value) THEN Get(value_mapping, human_value)
        ELSE IF partial # <<>> THEN partial[1].val
        ELSE human_value_lower

\* map_value_to_internal on the ValueMapping of the property (lines 172-188)
map_value_to_internal(value_mapping, human_value) ==
    LET human_value_lower == lower(human_value)
        same_ci == SelectSeq(value_mapping, LAMBDA e : lower(e.key) = human_value_lower)
        partial == SelectSeq(value_mapping,
                             LAMBDA e : StrIn(human_value_lower, lower(e.key))
                                        \/ StrIn(lower(e.key), human_value_lower))
    IN  IF HasKey(value_mapping, human_value) THEN Get(value_mapping, human_value)
        ELSE IF same_ci # <<>> THEN same_ci[1].val
        ELSE IF partial # <<>> THEN partial[1].val
        ELSE human_value

\* Faulty variant: the last label carrying the value is returned
map_internal_to_human_last(value_mapping, internal_value) ==
    LET hits == SelectSeq(value_mapping, LAMBDA e : e.val = internal_value)
    IN  IF hits # <<>> THEN hits[Len(hits)].key ELSE internal_value

\* map_internal_to_human on the ValueMapping of the property (lines 204-210)
map_internal_to_human(value_mapping, internal_value) ==
    LET hits == SelectSeq(value_mapping, LAMBDA e : e.val = internal_value)
    IN  IF hits # <<>> THEN hits[1].key ELSE internal_value

\* get_property_value_mapping: all_mappings.get(property_name, {})
get_property_value_mapping(all_mappings, property_name) ==
    IF HasKey(all_mappings, property_name) THEN Get(all_mappings, property_name) ELSE EmptyDict

(***************************************************************************)
(* Hierarchical export: value mappings merged into the property groups     *)
(***************************************************************************)
MergeProperties(properties, value_mappings) ==
    [i \in 1..Len(properties) |->
        [key |-> properties[i].key,
         val |-> [label |-> properties[i].val.label,
                  value_mappings |-> get_property_value_mapping(value_mappings,
                                                                properties[i].key)]]]

\* _export_hierarchical_object, lines 287-290
export_hierarchical_object(property_groups, value_mappings) ==
    [i \in 1..Len(property_groups) |->
        [key |-> property_groups[i].key,
         val |-> [display_name |-> property_groups[i].val.display_name,
                  properties |-> MergeProperties(property_groups[i].val.properties,
                                                 value_mappings)]]]

(***************************************************************************)
(* The remote portal the encyclopedias were exported from: owner           *)
(* directories and property schemas                                        *)
(***************************************************************************)
Owner(id, first, last, email) == [id |-> id, firstName |-> first, lastName |-> last, email |-> email]

OwnersTyler ==
    <<Owner(<<"1","2","3">>, <<"T","y","l","e","r">>, <<"B","e","a","g","l","e","y">>, <<>>),
      Owner(<<"4","5","6">>, <<"T","y","l","e","r">>, <<"P","r","i","c","e">>, <<>>)>>

OwnersMary ==
    <<Owner(<<"7","8","9">>, <<"M","a","r","y"," ","A","n","n">>, <<"L","e","e">>, <<>>),
      Owner(<<"7","9","0">>, <<"M","a","r","y"," ","J","o">>, <<"S","t","o","n","e">>, <<>>),
      Owner(<<"5","5","5">>, <<"D","a","l","l","a","s">>, <<"P","r","i","c","e">>, <<>>)>>

\* first name of one owner = e-mail user name of another, in a different case
OwnersMail ==
    <<Owner(<<"1","2","3">>, <<"T","y","l","e","r">>, <<"B","e","a","g","l","e","y">>, <<"t","y","l","e","r","@","x",".","c","o">>),
      Owner(<<"4","5","6">>, <<"T","y","l","e","r">>, <<"P","r","i","c","e">>, <<>>)>>

Option(label, value) == [label |-> label, value |-> value]

Property(name, label, type, group, options) ==
    [name |-> name, label |-> label, type |-> type, groupName |-> group, options |-> options]

G_companyinformation == <<"c","o","m","p","a","n","y","i","n","f","o","r","m","a","t","i","o","n">>
G_customer_success == <<"c","u","s","t","o","m","e","r","_","s","u","c","c","e","s","s">>
G_billing_information == <<"b","i","l","l","i","n","g","_","i","n","f","o","r","m","a","t","i","o","n">>

PropOwner ==
    Property(P_hubspot_owner_id, <<"C","o","m","p","a","n","y"," ","O","w","n","e","r">>, "enumeration", G_companyinformation, <<>>)

PropStatus ==
    Property(P_account_status, <<"A","c","c","o","u","n","t"," ","S","t","a","t","u","s">>, "enumeration", G_customer_success,
             <<Option(<<"A","c","t","i","v","e">>, <<"e","v","a","l","u","a","t","i","n","g">>), Option(<<"C","h","u","r","n","e","d">>, <<"c","h","u","r","n","e","d">>)>>)

PropIndustry ==
    Property(P_industry, <<"I","n","d","u","s","t","r","y">>, "enumeration", G_companyinformation,
             <<Option(<<"T","e","c","h","n","o","l","o","g","y">>, <<"T","E","C","H">>)>>)

PropTier ==
    Property(P_customer_tier, <<"C","u","s","t","o","m","e","r"," ","T","i","e","r">>, "enumeration", G_customer_success,
             <<Option(<<"E","n","t","e","r","p","r","i","s","e">>, <<"t","i","e","r","_","1">>)>>)

PropState ==
    Property(P_state, <<"S","t","a","t","e">>, "enumeration", G_companyinformation,
             <<Option(<<"T","e","x","a","s">>, <<"T","X">>)>>)

PropRenewalStatus ==
    Property(<<"r","e","n","e","w","a","l","_","s","t","a","t","u","s">>, <<"R","e","n","e","w","a","l"," ","S","t","a","t","u","s">>, "enumeration", G_billing_information,
             <<Option(<<"D","u","e">>, <<"d","u","e">>)>>)

PropLifecycle ==
    Property(<<"l","i","f","e","c","y","c","l","e","s","t","a","g","e">>, <<"L","i","f","e","c","y","c","l","e"," ","S","t","a","g","e">>, "enumeration", G_companyinformation,
             <<Option(<<"C","u","s","t","o","m","e","r">>, <<"c","u","s","t","o","m","e","r">>)>>)

PropRenewalDate ==
    Property(<<"n","e","x","t","_","r","e","n","e","w","a","l","_","d","a","t","e">>, <<"N","e","x","t"," ","R","e","n","e","w","a","l"," ","D","a","t","e">>, "date", G_billing_information, <<>>)

SchemaBasic == <<PropOwner, PropStatus>>

SchemaRich ==
    <<PropOwner, PropStatus, PropIndustry, PropTier, PropState, PropRenewalStatus,
      PropLifecycle, PropRenewalDate>>

group_map ==
    <<[key |-> <<"c","o","m","p","a","n","y","i","n","f","o","r","m","a","t","i","o","n">>,  val |-> <<"C","o","m","p","a","n","y"," ","I","n","f","o","r","m","a","t","i","o","n">>],
      [key |-> <<"c","o","m","p","a","n","y","_","i","n","f","o","r","m","a","t","i","o","n">>, val |-> <<"C","o","m","p","a","n","y"," ","I","n","f","o","r","m","a","t","i","o","n">>],
      [key |-> <<"b","i","l","l","i","n","g","_","i","n","f","o","r","m","a","t","i","o","n">>, val |-> <<"B","i","l","l","i","n","g"," ","I","n","f","o","r","m","a","t","i","o","n">>],
      [key |-> <<"c","u","s","t","o","m","e","r","_","s","u","c","c","e","s","s">>,    val |-> <<"C","u","s","t","o","m","e","r"," ","S","u","c","c","e","s","s">>],
      [key |-> <<"w","e","b","_","a","n","a","l","y","t","i","c","s">>,       val |-> <<"W","e","b"," ","A","n","a","l","y","t","i","c","s">>],
      [key |-> <<"s","o","c","i","a","l","_","m","e","d","i","a">>,        val |-> <<"S","o","c","i","a","l"," ","M","e","d","i","a">>],
      [key |-> <<"c","o","n","v","e","r","s","i","o","n","_","i","n","f","o","r","m","a","t","i","o","n">>, val |-> <<"C","o","n","v","e","r","s","i","o","n"," ","I","n","f","o","r","m","a","t","i","o","n">>]>>

\* _organize_by_groups on a schema whose group names are keys of group_map and whose
\* labels _make_readable_name leaves as they are
RECURSIVE OrganizeFrom(_, _)
OrganizeFrom(raw_properties, groups) ==
    IF raw_properties = <<>> THEN groups
    ELSE LET prop == raw_properties[1]
             group == IF HasKey(groups, prop.groupName)
                      THEN Get(groups, prop.groupName)
                      ELSE [display_name |-> Get(group_map, prop.groupName),
                            properties |-> EmptyDict]
             added == [group EXCEPT !.properties =
                          Put(@, prop.name, [label |-> prop.label])]
         IN  OrganizeFrom(Tail(raw_properties),
                          IF prop.name = <<>> THEN groups
                          ELSE Put(groups, prop.groupName, added))

organize_by_groups(raw_properties) == OrganizeFrom(raw_properties, EmptyDict)

\* The <object_type>.json that save_encyclopedia_to_files writes from the flat export of a
\* portal: value_mappings, no groups.  `loaded` says that load_encyclopedia found the file
FlatEncyclopediaOf(portal) ==
    [loaded |-> TRUE,
     value_mappings |-> discover_all_property_values(portal.owners, portal.properties),
     groups |-> EmptyDict]

\* The <object_type>.json holding what _export_hierarchical_object returns for a portal:
\* groups, no top-level value_mappings
HierarchicalEncyclopediaOf(portal) ==
    [loaded |-> TRUE,
     value_mappings |-> EmptyDict,
     groups |-> export_hierarchical_object(
                    organize_by_groups(portal.properties),
                    discover_all_property_values(portal.owners, portal.properties))]


(***************************************************************************)
(* Portals for group relevance: one schema per discovery order             *)
(***************************************************************************)
G_web_analytics == <<"w","e","b","_","a","n","a","l","y","t","i","c","s">>
G_social_media == <<"s","o","c","i","a","l","_","m","e","d","i","a">>
G_conversion_information == <<"c","o","n","v","e","r","s","i","o","n","_","i","n","f","o","r","m","a","t","i","o","n">>

PropBillingEmail ==
    Property(<<"b","i","l","l","i","n","g","_","e","m","a","i","l">>, <<"B","i","l","l","i","n","g"," ","E","m","a","i","l">>, "string", G_billing_information, <<>>)

PropBillingContact ==
    Property(<<"b","i","l","l","i","n","g","_","c","o","n","t","a","c","t">>, <<"B","i","l","l","i","n","g"," ","C","o","n","t","a","c","t">>, "string", G_customer_success, <<>>)

PropWebVisits ==
    Property(<<"w","e","b","_","v","i","s","i","t","s">>, <<"W","e","b"," ","V","i","s","i","t","s">>, "number", G_web_analytics, <<>>)

PropSocialHandle ==
    Property(<<"s","o","c","i","a","l","_","h","a","n","d","l","e">>, <<"S","o","c","i","a","l"," ","H","a","n","d","l","e">>, "string", G_social_media, <<>>)

PropConversionCount ==
    Property(<<"c","o","n","v","e","r","s","i","o","n","_","c","o","u","n","t">>, <<"C","o","n","v","e","r","s","i","o","n"," ","C","o","u","n","t">>, "number", G_conversion_information, <<>>)

\* The properties of each group of the portal, the groups in a base order; the customer
\* success group holds a billing contact or not
GroupProperties(with_contact) ==
    <<<<PropOwner>>,
      <<PropBillingEmail>>,
      IF with_contact THEN <<PropBillingContact, PropStatus>> ELSE <<PropStatus>>,
      <<PropWebVisits>>,
      <<PropSocialHandle>>,
      <<PropConversionCount>>>>

\* Which groups of the base order a portal lacks
GroupsLacking == {{}, {2}, {1, 2, 3}}

Rotate(s, r) == SubSeq(s, r + 1, Len(s)) \o SubSeq(s, 1, r)

Reverse(s) == [i \in 1..Len(s) |-> s[Len(s) + 1 - i]]

RECURSIVE Flatten(_)
Flatten(ss) == IF ss = <<>> THEN <<>> ELSE ss[1] \o Flatten(Tail(ss))

\* The schema the collaborator answers with: the order of its properties is the order in
\* which _organize_by_groups discovers the groups
GroupSchema(with_contact, lacking, r, reversed) ==
    LET base == GroupProperties(with_contact)
        kept == [i \in 1..Len(base) |-> IF i \in lacking THEN <<>> ELSE base[i]]
        turned == Rotate(kept, r)
    IN  Flatten(IF reversed THEN Reverse(turned) ELSE turned)

GroupSchemaSet ==
    {GroupSchema(c, l, r, v) :
        c \in BOOLEAN, l \in GroupsLacking, r \in 0..(Len(GroupProperties(TRUE)) - 1),
        v \in BOOLEAN}

RECURSIVE SetToSeq(_)
SetToSeq(S) ==
    IF S = {} THEN <<>>
    ELSE LET x == CHOOSE y \in S : TRUE IN <<x>> \o SetToSeq(S \ {x})

GroupPortals ==
    LET schemas == SetToSeq(GroupSchemaSet)
    IN  [i \in 1..Len(schemas) |-> [owners |-> OwnersTyler, properties |-> schemas[i]]]
(***************************************************************************)
(* PropertyDiscoveryService: readable names of the schema                  *)
(***************************************************************************)
\* str.capitalize()
capitalize(word) == IF word = <<>> THEN word ELSE upper(<<word[1]>>) \o lower(Tail(word))

\* _is_clean_label
is_clean_label(label) ==
    /\ " " \in SeqToSet(label)
    /\ lower(label) # label
    /\ "_" \notin SeqToSet(label)
    /\ 3 <= Len(label) /\ Len(label) <= 50

\* _humanize_internal_name on a lower-case name without the hs_ prefix
humanize_internal_name(internal_name) ==
    LET words == SelectSeq(split_on(internal_name, "_"), LAMBDA w : w # <<>>)
        F[i \in 0..Len(words)] ==
            IF i = 0 THEN <<>>
            ELSE IF i = 1 THEN capitalize(words[1])
            ELSE F[i - 1] \o <<" ">> \o capitalize(words[i])
    IN  F[Len(words)]

\* _make_readable_name; _clean_label leaves a label with a capital inside as it is
make_readable_name(prop) ==
    IF prop.label # <<>> /\ is_clean_label(prop.label)
    THEN strip(prop.label)
    ELSE humanize_internal_name(prop.name)

\* _process_properties
RECURSIVE ProcessFrom(_, _)
ProcessFrom(raw_properties, mappings) ==
    IF raw_properties = <<>> THEN mappings
    ELSE ProcessFrom(Tail(raw_properties),
                     IF raw_properties[1].name = <<>> THEN mappings
                     ELSE Put(mappings, raw_properties[1].name,
                              make_readable_name(raw_properties[1])))

process_properties(raw_properties) == ProcessFrom(raw_properties, EmptyDict)

\* sum(len(values) for values in mappings.values())
RECURSIVE total_values(_)
total_values(mappings) ==
    IF mappings = <<>> THEN 0 ELSE Len(mappings[1].val) + total_values(Tail(mappings))

(***************************************************************************)
(* Portals for label matching: overlapping status labels and renewal       *)
(* properties, stored in either order                                      *)
(***************************************************************************)
\* account_status with a label that is a prefix of another
PropStatusPending(long_first) ==
    Property(P_account_status, <<"A","c","c","o","u","n","t"," ","S","t","a","t","u","s">>, "enumeration", G_customer_success,
             IF long_first
             THEN <<Option(<<"P","e","n","d","i","n","g"," ","C","a","n","c","e","l","l","a","t","i","o","n">>, <<"p","e","n","d","i","n","g","_","c","a","n","c","e","l","l","a","t","i","o","n">>),
                    Option(<<"P","e","n","d","i","n","g">>, <<"p","e","n","d","i","n","g">>)>>
             ELSE <<Option(<<"P","e","n","d","i","n","g">>, <<"p","e","n","d","i","n","g">>),
                    Option(<<"P","e","n","d","i","n","g"," ","C","a","n","c","e","l","l","a","t","i","o","n">>, <<"p","e","n","d","i","n","g","_","c","a","n","c","e","l","l","a","t","i","o","n">>)>>)

PropTextingRenewal ==
    Property(<<"t","e","x","t","i","n","g","_","r","e","n","e","w","a","l","_","d","a","t","e">>, <<"T","e","x","t","i","n","g"," ","R","e","n","e","w","a","l"," ","D","a","t","e">>, "date",
             G_billing_information, <<>>)

LabelSchema(long_first, texting_first) ==
    <<PropOwner, PropStatusPending(long_first), PropIndustry, PropTier>>
    \o (IF texting_first THEN <<PropTextingRenewal, PropRenewalDate>>
        ELSE <<PropRenewalDate, PropTextingRenewal>>)
    \o <<PropRenewalStatus>>

LabelPortals ==
    <<[owners |-> OwnersTyler, properties |-> LabelSchema(TRUE, TRUE)],
      [owners |-> OwnersTyler, properties |-> LabelSchema(FALSE, FALSE)]>>

(***************************************************************************)
(* Bounds and inputs                                                       *)
(***************************************************************************)
MaxLimit == 2
MaxResults == 1

ObjectTypes == <<"companies", "contacts", "deals", "tickets">>

\* The object types an encyclopedia file exists for
StoredTypes == {"companies", "contacts"}

\* The object types the modelled callers ask for
CalledTypes == {"companies", "contacts", "deals"}

Limits == 1..MaxLimit

Emails == {<<>>, <<"m","a","r","y","_","j","o",".","s","t","o","n","e","@","x",".","c","o">>}

JoinWords(parts) ==
    LET present == SelectSeq(parts, LAMBDA p : p # <<>>)
        F[i \in 0..Len(present)] ==
            IF i = 0 THEN <<>>
            ELSE IF i = 1 THEN present[1]
            ELSE F[i - 1] \o <<" ">> \o present[i]
    IN  F[Len(present)]

OwnerPhrases == {<<>>, <<"T","y","l","e","r","'","s">>, <<"T","y","l","e","r"," ","P","r","i","c","e","'","s">>, <<"M","a","r","y","'","s">>}
Qualifiers == {<<>>, <<"a","c","t","i","v","e">>, <<"e","n","t","e","r","p","r","i","s","e"," ","t","e","c","h">>}
Subjects == {<<"c","o","m","p","a","n","i","e","s">>, <<"c","o","m","p","a","n","i","e","s"," ","i","n"," ","D","a","l","l","a","s">>, <<"c","o","m","p","a","n","i","e","s"," ","i","n"," ","A","u","s","t","i","n",","," ","T","e","x","a","s">>,
             <<"c","u","s","t","o","m","e","r","s"," ","i","n"," ","T","e","x","a","s">>}
Tails == {<<>>, <<"w","i","t","h"," ","u","p","c","o","m","i","n","g"," ","r","e","n","e","w","a","l">>, <<"i","n"," ","m","y"," ","n","a","m","e">>}

Queries ==
    {JoinWords(<<o, q, s, t>>) : o \in OwnerPhrases, q \in Qualifiers, s \in Subjects, t \in Tails}

\* The record lists the search collaborator may answer with: at most `limit` records,
\* each with next_renewal_date populated or not
RECURSIVE ResultLists(_)
ResultLists(n) ==
    IF n = 0 THEN {<<>>}
    ELSE ResultLists(n - 1)
         \cup {Append(r, [next_renewal_date |-> d]) :
                  r \in {x \in ResultLists(n - 1) : Len(x) = n - 1}, d \in BOOLEAN}

Min(a, b) == IF a < b THEN a ELSE b

(***************************************************************************)
(* Resolver construction                                                   *)
(***************************************************************************)
\* The encyclopedias that may be on disk.  A file, and a cache entry loaded from it, is
\* held as the number of the export it contains; NoFile stands for a missing file
Portals == <<[owners |-> OwnersTyler, properties |-> SchemaBasic],
             [owners |-> OwnersTyler, properties |-> SchemaRich],
             [owners |-> OwnersMary, properties |-> SchemaBasic],
             [owners |-> OwnersMary, properties |-> SchemaRich]>>

Exports ==
    [i \in 1..Len(Portals) |-> FlatEncyclopediaOf(Portals[i])]
    \o [i \in 1..Len(Portals) |-> HierarchicalEncyclopediaOf(Portals[i])]

\* The hierarchical exports of the group portals, numbered after Exports
GroupExports == [i \in 1..Len(GroupPortals) |-> HierarchicalEncyclopediaOf(GroupPortals[i])]

GroupExportIds == (Len(Exports) + 1)..(Len(Exports) + Len(GroupExports))

NoFile == 0

\* The flat and the hierarchical exports of the label portals, numbered after GroupExports
LabelExports ==
    [i \in 1..Len(LabelPortals) |-> FlatEncyclopediaOf(LabelPortals[i])]
    \o [i \in 1..Len(LabelPortals) |-> HierarchicalEncyclopediaOf(LabelPortals[i])]

LabelExportIds ==
    (Len(Exports) + Len(GroupExports) + 1)..(Len(Exports) + Len(GroupExports) + Len(LabelExports))

\* The content of a file or cache entry
Data(id) ==
    IF id = NoFile THEN NoData
    ELSE IF id <= Len(Exports) THEN Exports[id]
    ELSE IF id <= Len(Exports) + Len(GroupExports) THEN GroupExports[id - Len(Exports)]
    ELSE LabelExports[id - Len(Exports) - Len(GroupExports)]

\* EncyclopediaService.load_encyclopedia(object_type): the file's content, or {}
load_encyclopedia(files, object_type) == files[object_type]

\* _load_encyclopedia_cache
load_encyclopedia_cache(files) ==
    [t \in SeqToSet(ObjectTypes) |-> load_encyclopedia(files, t)]

\* _load_hierarchical_cache: only data with groups is kept
load_hierarchical_cache(files) ==
    [t \in SeqToSet(ObjectTypes) |->
        IF Data(load_encyclopedia(files, t)).loaded
           /\ Data(load_encyclopedia(files, t)).groups # <<>>
        THEN load_encyclopedia(files, t) ELSE NoFile]

FilesOf(id) == [t \in SeqToSet(ObjectTypes) |-> IF t \in StoredTypes THEN id ELSE NoFile]

\* A missing <object_type>.json
MissingFile ==
    [loaded |-> FALSE, stamp |-> 0, property_mappings |-> EmptyDict,
     value_mappings |-> EmptyDict, groups |-> EmptyDict]

\* The <object_type>.json that holds export `id`, written before the service started
\* (stamp 0).  A flat export carries the property mappings of its portal
FileOf(id) ==
    IF id = NoFile THEN MissingFile
    ELSE [loaded |-> TRUE, stamp |-> 0,
          property_mappings |-> IF id <= Len(Portals)
                                THEN process_properties(Portals[id].properties)
                                ELSE EmptyDict,
          value_mappings |-> Data(id).value_mappings,
          groups |-> Data(id).groups]

\* The encyclopedia directory when the files of FilesOf(id) are in it
StoredFiles(id) == [t \in SeqToSet(ObjectTypes) |-> FileOf(FilesOf(id)[t])]

\* What a resolver constructed now would hold for a file
AsData(file) ==
    [loaded |-> file.loaded, value_mappings |-> file.value_mappings, groups |-> file.groups]

NoEncyclopedia == <<>>

\* No refresh has been asked for yet
RefreshIdle ==
    /\ refresh_pc = 0
    /\ encyclopedia = NoEncyclopedia
    /\ export_failures = {}
    /\ refreshes = 0

NoCall == [kind |-> "none", object_type |-> "none", user_query |-> <<>>, limit |-> 0,
           user_email |-> <<>>]

ResolverIdle ==
    /\ pc = "idle"
    /\ call = NoCall
    /\ relevant_groups = <<>>
    /\ query_analysis = EmptyAnalysis
    /\ filters = <<>>
    /\ results = <<>>
    /\ search_calls = <<>>
    /\ stages = <<>>
    /\ response = <<>>

VdIdle ==
    /\ vd_pc = "idle"
    /\ vd_property = <<>>
    /\ vd_input = <<>>
    /\ vd_internal = <<>>
    /\ vd_human = <<>>

\* The coroutines the event loop may hold at once
Tasks == {"a", "b"}

\* A free slot of the event loop.  service, op and object_type name the call; the other
\* fields are the locals of the coroutine and what its caller gets
NoTask ==
    [service |-> "none", op |-> "none", object_type |-> "none", pc |-> "idle",
     all_value_mappings |-> EmptyDict, contacted |-> FALSE, raised |-> FALSE,
     had_entry |-> FALSE, missed |-> FALSE, result |-> EmptyDict]

NoEntries == <<>>

\* Both services as their __init__ leaves them, and no call made yet
CacheIdle ==
    /\ now = 0
    /\ tasks = [t \in Tasks |-> NoTask]
    /\ started = 0
    /\ vd_value_cache = NoEntries
    /\ vd_cache_expiry = NoEntries
    /\ pd_cache = NoEntries
    /\ pd_cache_expiry = NoEntries
    /\ fetched_at = [values |-> NoEntries, schema |-> NoEntries]

Init ==
    /\ \E id \in 1..Len(Exports) :
          /\ flat_cache = load_encyclopedia_cache(FilesOf(id))
          /\ hier_cache = load_hierarchical_cache(FilesOf(id))
          /\ encyclopedia_dir = StoredFiles(id)
    /\ ResolverIdle
    /\ value_cache = EmptyDict
    /\ VdIdle
    /\ CacheIdle
    /\ RefreshIdle

(***************************************************************************)
(* resolve_and_search                                                      *)
(***************************************************************************)
MAX_COMPANY_LIMIT == 1000

\* What the request carries of a filter
Wire(fs) == [i \in 1..Len(fs) |->
                [propertyName |-> fs[i].propertyName, operator |-> fs[i].operator,
                 value |-> fs[i].value]]

\* Faulty variant: the default limit of the signature is sent, not the caller's
SearchRequest_default_limit(object_type, fs, limit) ==
    [via |-> IF object_type = "companies" THEN "search_companies" ELSE "_make_request",
     limit_asked |-> 200, filterGroups |-> <<Wire(fs)>>, limit |-> 200]

\* _execute_search up to its await: the request handed to the search collaborator
SearchRequest(object_type, fs, limit) ==
    IF object_type = "companies"
    THEN [via |-> "search_companies", limit_asked |-> limit,
          filterGroups |-> <<Wire(fs)>>, limit |-> Min(limit, MAX_COMPANY_LIMIT)]
    ELSE [via |-> "_make_request", limit_asked |-> limit,
          filterGroups |-> IF fs # <<>> THEN <<Wire(fs)>> ELSE <<>>, limit |-> limit]

\* EncyclopediaResolver.resolve_and_search from its entry to the await in _execute_search
FlatCall(object_type, user_query) ==
    /\ pc = "idle"
    /\ LET data == Data(flat_cache[object_type])
           fs   == resolve_query_to_filters(data, user_query)
       IN  /\ query_analysis' = analyze_query_comprehensively(data, user_query)
           /\ filters' = fs
           /\ \E limit \in Limits :
                 /\ search_calls' = <<SearchRequest(object_type, fs, limit)>>
                 /\ call' = [kind |-> "flat", object_type |-> object_type,
                             user_query |-> user_query, limit |-> limit,
                             user_email |-> <<>>]
    /\ relevant_groups' = <<>>
    /\ stages' = <<"ANALYZE", "RESOLVE_FILTERS", "EXECUTE">>
    /\ pc' = "searching"
    /\ UNCHANGED <<flat_cache, hier_cache, results, response, vd_vars, cache_vars, refresh_vars>>

\* What the rest of the call reads of relevant_groups once the search has answered: the
\* number of groups and their names; the properties stay in the cache
GroupSummary(groups) ==
    [i \in 1..Len(groups) |->
        [name |-> groups[i].name, display_name |-> groups[i].display_name,
         relevance_score |-> groups[i].relevance_score]]

\* HierarchicalEncyclopediaResolver.resolve_and_search up to the await in _execute_search
HierCall(object_type, user_query, user_email) ==
    /\ pc = "idle"
    /\ LET groups == identify_relevant_groups(Data(hier_cache[object_type]), user_query)
           fs == resolve_query_to_filters_hierarchical(user_query, groups, user_email)
       IN  /\ relevant_groups' = GroupSummary(groups)
           /\ query_analysis' = analyze_query_hierarchically(user_query, groups)
           /\ filters' = fs
           /\ \E limit \in Limits :
                 /\ search_calls' = <<SearchRequest(object_type, fs, limit)>>
                 /\ call' = [kind |-> "hier", object_type |-> object_type,
                             user_query |-> user_query, limit |-> limit,
                             user_email |-> user_email]
    /\ stages' = <<"IDENTIFY_GROUPS", "ANALYZE", "RESOLVE_FILTERS", "EXECUTE">>
    /\ pc' = "searching"
    /\ UNCHANGED <<flat_cache, hier_cache, results, response, vd_vars, cache_vars, refresh_vars>>

\* The note of the call: _generate_data_insights or _generate_hierarchical_insights
NoteFor(result_list) ==
    IF call.kind = "flat"
    THEN generate_data_insights(query_analysis, result_list)
    ELSE generate_hierarchical_insights(query_analysis, result_list, relevant_groups)

\* The dict resolve_and_search returns
ResponseFor(result_list) ==
    [query |-> call.user_query,
     object_type |-> call.object_type,
     query_analysis |-> query_analysis,
     resolved_filters |-> filters,
     results |-> result_list,
     total_returned |-> Len(result_list),
     limit_applied |-> call.limit,
     note |-> NoteFor(result_list)]

\* The rest of resolve_and_search once _execute_search has `result_list`
Finish(result_list, outcome) ==
    /\ results' = result_list
    /\ stages' = stages \o <<outcome, "EXPLAIN">>
    /\ response' = <<ResponseFor(result_list)>>
    /\ pc' = "done"
    /\ UNCHANGED <<flat_cache, hier_cache, call, relevant_groups, query_analysis, filters,
                   search_calls, vd_vars, cache_vars, refresh_vars>>

\* The collaborator answers with a list of records
SearchReturns(result_list) ==
    /\ pc = "searching"
    /\ Len(result_list) <= call.limit
    /\ Finish(result_list, "search_returned")

\* Faulty variant: _execute_search lets the exception through, the call returns nothing
SearchRaises_propagates ==
    /\ pc = "searching"
    /\ stages' = stages \o <<"search_raised">>
    /\ pc' = "done"
    /\ UNCHANGED <<flat_cache, hier_cache, call, relevant_groups, query_analysis, filters,
                   results, response, search_calls, vd_vars, cache_vars, refresh_vars>>

\* The collaborator raises: _execute_search catches it and returns []
SearchRaises ==
    /\ pc = "searching"
    /\ Finish(<<>>, "search_raised")

\* The caller has its result; nothing of the call is kept
Return ==
    /\ pc = "done"
    /\ pc' = "idle"
    /\ call' = NoCall
    /\ relevant_groups' = <<>>
    /\ query_analysis' = EmptyAnalysis
    /\ filters' = <<>>
    /\ results' = <<>>
    /\ search_calls' = <<>>
    /\ stages' = <<>>
    /\ response' = <<>>
    /\ UNCHANGED <<flat_cache, hier_cache, vd_vars, cache_vars, refresh_vars>>

\* A caller of the flat resolver
FlatRequest ==
    /\ pc = "idle"
    /\ \E t \in CalledTypes, q \in Queries : FlatCall(t, q)

\* A caller of the group-scoped resolver
HierRequest ==
    /\ pc = "idle"
    /\ \E t \in CalledTypes, q \in Queries, e \in Emails : HierCall(t, q, e)

SearchAnswer ==
    /\ pc = "searching"
    /\ \E r \in ResultLists(MaxResults) : SearchReturns(r)

Next ==
    \/ FlatRequest
    \/ HierRequest
    \/ SearchAnswer
    \/ SearchRaises
    \/ Return

Spec == Init /\ [][Next]_vars

(***************************************************************************)
(* Value Index lookups on a populated ValueDiscoveryService                *)
(***************************************************************************)
\* The portals whose values discover_all_property_values may have cached
ValuePortals ==
    {[owners |-> o, properties |-> s] :
        o \in {OwnersTyler, OwnersMary, OwnersMail}, s \in {SchemaBasic, SchemaRich}}

\* Strings that are no label of the modelled portals
UnknownValues == {<<"I","n","a","c","t","i","v","e">>, <<"Z","e","d">>, <<"T","y">>, <<"M","a","r","y"," ","J">>}

\* A property the Value Index holds nothing for
P_lead_source == <<"l","e","a","d","_","s","o","u","r","c","e">>

LookupProperties == SeqToSet(LabelsOf(value_cache)) \cup {P_lead_source}

\* The human values a caller may ask about: the labels, their case variants, unknown strings
HumanValues(value_mapping) ==
    LET labels == SeqToSet(LabelsOf(value_mapping))
    IN  labels \cup {upper(l) : l \in labels} \cup {lower(l) : l \in labels} \cup UnknownValues

InitValue ==
    /\ flat_cache = load_encyclopedia_cache(FilesOf(NoFile))
    /\ hier_cache = load_hierarchical_cache(FilesOf(NoFile))
    /\ encyclopedia_dir = StoredFiles(NoFile)
    /\ ResolverIdle
    /\ \E portal \in ValuePortals :
          value_cache = discover_all_property_values(portal.owners, portal.properties)
    /\ VdIdle
    /\ CacheIdle
    /\ RefreshIdle

\* await map_value_to_internal(object_type, property_name, human_value) on a valid cache
MapValueToInternal(property_name, human_value) ==
    /\ vd_pc = "idle"
    /\ vd_property' = property_name
    /\ vd_input' = human_value
    /\ vd_internal' = map_value_to_internal(
                          get_property_value_mapping(value_cache, property_name), human_value)
    /\ vd_pc' = "mapped"
    /\ UNCHANGED <<resolver_vars, cache_vars, refresh_vars, value_cache, vd_human>>

\* await map_internal_to_human(object_type, property_name, internal_value) on the value the
\* caller has just got from map_value_to_internal
MapInternalToHuman ==
    /\ vd_pc = "mapped"
    /\ vd_human' = map_internal_to_human(
                       get_property_value_mapping(value_cache, vd_property), vd_internal)
    /\ vd_pc' = "round_trip"
    /\ UNCHANGED <<resolver_vars, cache_vars, refresh_vars, value_cache, vd_property, vd_input, vd_internal>>

\* The caller is done with the lookups
LookupDone ==
    /\ vd_pc \in {"mapped", "round_trip"}
    /\ vd_pc' = "idle"
    /\ vd_property' = <<>>
    /\ vd_input' = <<>>
    /\ vd_internal' = <<>>
    /\ vd_human' = <<>>
    /\ UNCHANGED <<resolver_vars, cache_vars, refresh_vars, value_cache>>

LookupRequest ==
    /\ vd_pc = "idle"
    /\ \E p \in LookupProperties :
          \E h \in HumanValues(get_property_value_mapping(value_cache, p)) :
              MapValueToInternal(p, h)

NextValue ==
    \/ LookupRequest
    \/ MapInternalToHuman
    \/ LookupDone

SpecValue == InitValue /\ [][NextValue]_vars

(***************************************************************************)
(* Properties of filter resolution                                         *)
(***************************************************************************)
\* The cache entry the running call resolves against
CallData ==
    IF call.kind = "flat" THEN Data(flat_cache[call.object_type])
    ELSE Data(hier_cache[call.object_type])

CallQuery == lower(call.user_query)

\* The query carries one of the ownership cues
HasOwnershipCue == \E cue \in {<<"'","s">>, <<"o","w","n","e","r">>, <<"o","w","n","e","d"," ","b","y">>, <<"p","o","r","t","f","o","l","i","o">>} : StrIn(cue, CallQuery)

\* The identity hint can resolve: the query says "my name" and the caller gave an e-mail
\* address; only the group-scoped resolver takes one
IdentityHintApplies ==
    /\ call.kind = "hier"
    /\ StrIn(<<"m","y"," ","n","a","m","e">>, CallQuery)
    /\ StrIn(<<"@">>, call.user_email)

OwnerFilters == SelectSeq(filters, LAMBDA f : f.category = "owner")

\* C1: a query with no ownership cue, for which no identity hint applies, gets no owner
\* filter, in the flat resolver and in the group-scoped resolver alike.
C1_NoCueNoOwnerFilter ==
    (pc # "idle" /\ ~HasOwnershipCue /\ ~IdentityHintApplies) => OwnerFilters = <<>>

\* The entries of `cities` found in the query
CitiesFound == SelectSeq(cities, LAMBDA c : StrIn(c.key, CallQuery))

\* A label of property p matches the query q the way the resolver of p would match it
LabelMatches(q, p, label) ==
    \/ StrIn(lower(label), q)
    \/ p \in SeqToSet(OwnerProps) /\ PartialOwnerMatch(label, q)
    \/ p = P_industry /\ AnyIn(industry_terms(label), q)
    \/ p = P_customer_tier /\ AnyIn(search_terms(label), q)

\* The query q is made of owner label o with a possessive, status label s and the one known
\* city c, and every other label of value_mappings that matches is an alias of o or of s
QueryMadeOf(q, value_mappings, o, s, c) ==
    /\ StrIn(lower(o.key) \o <<"'","s">>, q)
    /\ StrIn(lower(s.key), q)
    /\ SelectSeq(cities, LAMBDA x : StrIn(x.key, q)) = <<c>>
    /\ Len(c.val) # StateCodeLen
    /\ ~AnyIn(date_renewal_terms, q)
    /\ \A i \in 1..Len(value_mappings) :
          LET p == value_mappings[i].key
              m == value_mappings[i].val
          IN  \A j \in 1..Len(m) :
                 LabelMatches(q, p, m[j].key) =>
                     \/ p \in SeqToSet(OwnerProps) /\ m[j].val = o.val
                     \/ p = P_account_status /\ m[j].val = s.val

\* The premise of C2 holds of the running call for some o, s, c, and Holds(o, s, c)
ForQueryMadeOf(Holds(_, _, _)) ==
    LET q == CallQuery
        value_mappings == CallData.value_mappings
        owners == SelectSeq(get_property_value_mapping(value_mappings, P_hubspot_owner_id),
                            LAMBDA o : StrIn(lower(o.key) \o <<"'","s">>, q))
        statuses == SelectSeq(get_property_value_mapping(value_mappings, P_account_status),
                              LAMBDA s : StrIn(lower(s.key), q))
        found == SelectSeq(cities, LAMBDA x : StrIn(x.key, q))
    IN  {<<o, s, c>> \in SeqToSet(owners) \X SeqToSet(statuses) \X SeqToSet(found) :
            QueryMadeOf(q, value_mappings, o, s, c) /\ Holds(o, s, c)}

ThreeFilters(o, s, c) ==
    <<[propertyName |-> P_hubspot_owner_id, operator |-> "EQ", value |-> o.val],
      [propertyName |-> P_account_status, operator |-> "EQ", value |-> s.val],
      [propertyName |-> P_city, operator |-> "EQ", value |-> c.val]>>

\* A flat call right after RESOLVE_FILTERS; `filters` is not written again
FlatResolved == pc = "searching" /\ call.kind = "flat" /\ CallData.loaded

FlatCompaniesCall == FlatResolved /\ call.object_type = "companies"

\* C2: for companies, a query made of an owner label with a possessive, a status label and
\* one known city, with no other matching label, resolves to exactly the three filters
\* hubspot_owner_id EQ id, account_status EQ value, city EQ C, in this order.
C2_OwnerStatusCity ==
    FlatCompaniesCall =>
        ForQueryMadeOf(LAMBDA o, s, c : Wire(filters) # ThreeFilters(o, s, c)) = {}

\* Such a call, with an encyclopedia that holds another owner id as well
C2_Witness ==
    /\ FlatCompaniesCall
    /\ ForQueryMadeOf(LAMBDA o, s, c :
            /\ Wire(filters) = ThreeFilters(o, s, c)
            /\ \E e \in SeqToSet(get_property_value_mapping(CallData.value_mappings,
                                                            P_hubspot_owner_id)) :
                  e.val # o.val) # {}

CityDetected == \E i \in 1..Len(CitiesFound) : Len(CitiesFound[i].val) # StateCodeLen

StateDetected == \E i \in 1..Len(CitiesFound) : Len(CitiesFound[i].val) = StateCodeLen

FiltersOn(prop) == SelectSeq(filters, LAMBDA f : f.propertyName = prop)

\* C3: when a known city is detected the flat resolver emits a city filter and no filter on
\* the state property, whatever the Value Index holds; a state filter appears only when a
\* state is detected and no city is.
C3_CityExcludesState ==
    (pc # "idle" /\ call.kind = "flat" /\ CallData.loaded) =>
        /\ CityDetected => (FiltersOn(P_city) # <<>> /\ FiltersOn(P_state) = <<>>)
        /\ FiltersOn(P_state) # <<>> => (StateDetected /\ ~CityDetected)

\* The ValueMapping the flat owner resolution used: that of the first owner property that
\* yields a match
OwnerLabels(prop) == get_property_value_mapping(CallData.value_mappings, prop)

FullMatches(prop) == {e \in SeqToSet(OwnerLabels(prop)) : ExactOwnerMatch(e.key, CallQuery)}

FirstNameMatches(prop) ==
    {e \in SeqToSet(OwnerLabels(prop)) : PartialOwnerMatch(e.key, CallQuery)}

\* C4: with an ownership cue, the owner id emitted is that of a label occurring in full when
\* there is one, and otherwise that of the longest label among those whose first name occurs
\* with 's.
C4_FullBeatsFirstName ==
    (FlatResolved /\ HasOwnershipCue) =>
        LET full  == FullMatches(OwnerProps[1])
            first == FirstNameMatches(OwnerProps[1])
        IN  /\ full # {} =>
                /\ Len(OwnerFilters) = 1
                /\ OwnerFilters[1].value \in {e.val : e \in full}
            /\ (full = {} /\ first # {}) =>
                /\ Len(OwnerFilters) = 1
                /\ \E e \in first :
                      /\ OwnerFilters[1].value = e.val
                      /\ \A other \in first : Len(other.key) <= Len(e.key)

\* A full match wins although first-name matches with another id exist
C4_WitnessFull ==
    /\ FlatResolved /\ HasOwnershipCue
    /\ FullMatches(OwnerProps[1]) # {}
    /\ \E e \in FirstNameMatches(OwnerProps[1]) :
          Len(OwnerFilters) = 1 /\ e.val # OwnerFilters[1].value

\* No full match; first-name matches of different lengths and ids; the longest one is emitted
C4_Witness ==
    /\ FlatResolved /\ HasOwnershipCue
    /\ FullMatches(OwnerProps[1]) = {}
    /\ Len(OwnerFilters) = 1
    /\ \E e \in FirstNameMatches(OwnerProps[1]), shorter \in FirstNameMatches(OwnerProps[1]) :
          /\ Len(shorter.key) < Len(e.key)
          /\ shorter.val # e.val
          /\ OwnerFilters[1].value = e.val

\* C8: in resolved_filters no filter of a later category precedes a filter of an earlier
\* one, the categories being ordered owner, status, industry, tier, location, date, generic.
C8_CategoryOrder ==
    \A i \in 1..Len(filters) : \A j \in (i + 1)..Len(filters) :
        CategoryRank(filters[i].category) <= CategoryRank(filters[j].category)

Categories(fs) == {fs[i].category : i \in 1..Len(fs)}

\* A flat call whose filters come from six categories, and the answer carrying them
C8_Witness ==
    /\ pc = "done"
    /\ Cardinality(Categories(filters)) >= 6
    /\ response[1].resolved_filters = filters

RaisedCall == pc = "done" /\ \E i \in 1..Len(stages) : stages[i] = "search_raised"

\* C9: when the search collaborator raises, the call still returns a result: results empty,
\* total_returned 0, resolved_filters the list resolved before the failure.
C9_RaiseYieldsEmptyResult ==
    RaisedCall =>
        /\ Len(response) = 1
        /\ response[1].results = <<>>
        /\ response[1].total_returned = 0
        /\ response[1].resolved_filters = filters
        /\ Wire(response[1].resolved_filters) = Wire(filters)
        /\ \A k \in 1..Len(search_calls[1].filterGroups) :
              search_calls[1].filterGroups[k] = Wire(response[1].resolved_filters)

\* The collaborator raised on a request that carried filters
C9_Witness ==
    /\ RaisedCall
    /\ Len(response) = 1
    /\ response[1].resolved_filters # <<>>
    /\ response[1].results = <<>>

\* The positions of stage s in the stages the call has run
StagePositions(s) == {i \in 1..Len(stages) : stages[i] = s}

\* C10: a call runs ANALYZE, RESOLVE_FILTERS, EXECUTE, EXPLAIN in this order and invokes the
\* search collaborator exactly once, with the requested limit, also when no filter was
\* resolved or no encyclopedia is loaded for the object type.
C10_StagesAndOneSearch ==
    pc = "done" =>
        /\ \A s \in {"ANALYZE", "RESOLVE_FILTERS", "EXECUTE", "EXPLAIN"} :
              Cardinality(StagePositions(s)) = 1
        /\ \E a \in StagePositions("ANALYZE"), r \in StagePositions("RESOLVE_FILTERS"),
              x \in StagePositions("EXECUTE"), e \in StagePositions("EXPLAIN") :
                 a < r /\ r < x /\ x < e /\ e = Len(stages)
        /\ Len(search_calls) = 1
        /\ search_calls[1].limit_asked = call.limit
        /\ Len(response) = 1
        /\ response[1].limit_applied = call.limit

\* A call for an object type without encyclopedia: no filters, one unfiltered search
C10_Witness ==
    /\ pc = "done"
    /\ ~CallData.loaded
    /\ filters = <<>>
    /\ Len(search_calls) = 1
    /\ search_calls[1].filterGroups \in {<<>>, <<(<<>>)>>}
    /\ search_calls[1].limit_asked = MaxLimit

(***************************************************************************)
(* Properties of the Value Index lookups                                   *)
(***************************************************************************)
\* The ValueMapping of the property looked up
LookupMapping == get_property_value_mapping(value_cache, vd_property)

LookupLabels == SeqToSet(LookupMapping)

\* C5 as stated: a label L mapped to V resolves to V, and so do L.upper() and L.lower().
C5_CaseVariantsResolveToV ==
    vd_pc = "mapped" =>
        \A e \in LookupLabels :
            vd_input \in {e.key, upper(e.key), lower(e.key)} => vd_internal = e.val

\* The internal values of the labels equal to `label` when case is ignored
ValuesIgnoringCase(label) == {e.val : e \in {x \in LookupLabels : lower(x.key) = lower(label)}}

\* C5, amended: a label L mapped to V resolves to V; L.upper() and L.lower() resolve to the
\* internal value of a label equal to L ignoring case, hence to V when all such labels
\* map to V.
C5_CaseVariantsResolveIgnoringCase ==
    vd_pc = "mapped" =>
        \A e \in LookupLabels :
            /\ vd_input = e.key => vd_internal = e.val
            /\ (vd_input \in {upper(e.key), lower(e.key)} /\ lower(vd_input) = lower(e.key)) =>
                  /\ vd_internal \in ValuesIgnoringCase(e.key)
                  /\ ValuesIgnoringCase(e.key) = {e.val} => vd_internal = e.val

\* An upper-cased label that is no label itself resolved to the label's value
C5_Witness ==
    /\ vd_pc = "mapped"
    /\ ~HasKey(LookupMapping, vd_input)
    /\ \E e \in LookupLabels :
          vd_input = upper(e.key) /\ vd_input # e.key /\ vd_internal = e.val

\* vd_input is in no label: not exactly, not ignoring case, not as a substring
InNoLabel ==
    \A e \in LookupLabels :
        /\ e.key # vd_input
        /\ lower(e.key) # lower(vd_input)
        /\ ~StrIn(lower(vd_input), lower(e.key))

\* C6 as stated: a string present in no label (exactly, ignoring case, or as a substring)
\* is returned unchanged.
C6_UnknownPassesThrough ==
    (vd_pc = "mapped" /\ InNoLabel) => vd_internal = vd_input

\* C6, amended: a string that is in no label and that contains no label (ignoring case) is
\* returned unchanged.
C6_UnrelatedPassesThrough ==
    (vd_pc = "mapped" /\ InNoLabel
        /\ \A e \in LookupLabels : ~StrIn(lower(e.key), lower(vd_input)))
    => vd_internal = vd_input

C6_Witness ==
    /\ vd_pc = "mapped"
    /\ LookupLabels # {}
    /\ InNoLabel
    /\ \A e \in LookupLabels : ~StrIn(lower(e.key), lower(vd_input))
    /\ vd_input # <<>>
    /\ vd_internal = vd_input

\* C7 as stated: mapping a label A to its internal value and back returns A.
C7_RoundTripReturnsLabel ==
    (vd_pc = "round_trip" /\ HasKey(LookupMapping, vd_input)) => vd_human = vd_input

\* C7, amended: mapping a label A to its internal value and back returns the first label of
\* the ValueMapping that carries the internal value of A: A itself exactly when no earlier
\* label carries it.
C7_RoundTripReturnsFirstAlias ==
    (vd_pc = "round_trip" /\ HasKey(LookupMapping, vd_input)) =>
        \E i \in 1..Len(LookupMapping) :
            /\ LookupMapping[i].key = vd_human
            /\ LookupMapping[i].val = Get(LookupMapping, vd_input)
            /\ \A j \in 1..(i - 1) : LookupMapping[j].val # Get(LookupMapping, vd_input)

\* The round trip of a label came back as an earlier alias
C7_Witness ==
    /\ vd_pc = "round_trip"
    /\ HasKey(LookupMapping, vd_input)
    /\ vd_human # vd_input
    /\ Get(LookupMapping, vd_human) = Get(LookupMapping, vd_input)

(***************************************************************************)
(* Properties of the note (EXPLAIN)                                        *)
(***************************************************************************)
\* The call has returned a result without records
ReturnedEmpty == pc = "done" /\ Len(response) = 1 /\ response[1].results = <<>>

\* resolved_filters of the returned result holds a filter of the status category
HasStatusFilter ==
    \E i \in 1..Len(response[1].resolved_filters) :
        response[1].resolved_filters[i].category = "status"

\* The sentences of the note that speak of the status category
StatusInsights == {"no_status_results"}

NoteRefersToStatus ==
    \E i \in 1..Len(response[1].note) : response[1].note[i].kind \in StatusInsights

\* C11: when resolved_filters includes a status filter and results is empty, the note is
\* non-empty and refers to the status category, in the flat and in the group-scoped resolver.
C11_StatusNoteOnEmpty ==
    (ReturnedEmpty /\ HasStatusFilter) =>
        (response[1].note # <<>> /\ NoteRefersToStatus)

\* C12: when the query resolves to zero filters, the returned result carries a non-empty note.
C12_NoteOnZeroFilters ==
    (pc = "done" /\ Len(response) = 1 /\ response[1].resolved_filters = <<>>) =>
        response[1].note # <<>>


(***************************************************************************)
(* Group relevance: the group-scoped resolver on portals whose groups are  *)
(* discovered in every order                                               *)
(***************************************************************************)
Q_billing_contact == <<"b","i","l","l","i","n","g"," ","c","o","n","t","a","c","t">>

\* Queries that score several groups alike, none, more than MaxRelevantGroups, or one
GroupQueries ==
    {Q_billing_contact, <<"i","n","f","o","r","m","a","t","i","o","n">>, <<"c","o","m","p","a","n","i","e","s">>, <<"w","e","b">>,
     <<"c","o","m","p","a","n","y"," ","b","i","l","l","i","n","g"," ","c","u","s","t","o","m","e","r"," ","w","e","b"," ","s","o","c","i","a","l"," ","c","o","n","v","e","r","s","i","o","n"," ","i","n","f","o","r","m","a","t","i","o","n">>}

InitGroups ==
    /\ \E id \in GroupExportIds :
          /\ flat_cache = load_encyclopedia_cache(FilesOf(id))
          /\ hier_cache = load_hierarchical_cache(FilesOf(id))
          /\ encyclopedia_dir = StoredFiles(id)
    /\ ResolverIdle
    /\ value_cache = EmptyDict
    /\ VdIdle
    /\ CacheIdle
    /\ RefreshIdle

\* A caller of the group-scoped resolver on an object type that has an encyclopedia
GroupRequest ==
    /\ pc = "idle"
    /\ \E t \in StoredTypes, q \in GroupQueries : HierCall(t, q, <<>>)

NextGroups ==
    \/ GroupRequest
    \/ SearchAnswer
    \/ SearchRaises
    \/ Return

SpecGroups == InitGroups /\ [][NextGroups]_vars

\* A call of the group-scoped resolver has identified its groups
GroupsIdentified == pc # "idle" /\ call.kind = "hier"

\* The groups of the cache entry of the call, in discovery order
CachedGroups == Data(hier_cache[call.object_type]).groups

DiscoveryIndex(name) == CHOOSE i \in 1..Len(CachedGroups) : CachedGroups[i].key = name

\* The score of a cached group for the query of the call
ScoreOf(name) ==
    relevance_score(findall_words(lower(call.user_query)), Get(CachedGroups, name))

ReturnedNames == {relevant_groups[i].name : i \in 1..Len(relevant_groups)}

LeftOutNames == {CachedGroups[i].key : i \in 1..Len(CachedGroups)} \ ReturnedNames

SomeGroupScores == \E i \in 1..Len(CachedGroups) : ScoreOf(CachedGroups[i].key) > 0

\* At most 5 groups, each a cached group listed once with its score, in non-increasing
\* order of score, and no group left out scores higher than a returned one
CappedAndRanked ==
    /\ Len(relevant_groups) <= 5
    /\ \A i \in 1..Len(relevant_groups) :
          /\ HasKey(CachedGroups, relevant_groups[i].name)
          /\ relevant_groups[i].relevance_score = ScoreOf(relevant_groups[i].name)
    /\ \A i, j \in 1..Len(relevant_groups) :
          i < j => /\ relevant_groups[i].name # relevant_groups[j].name
                   /\ relevant_groups[i].relevance_score >= relevant_groups[j].relevance_score
    /\ \A out \in LeftOutNames, r \in ReturnedNames : ScoreOf(out) <= ScoreOf(r)

\* Groups of equal score are listed in discovery order
TiesInDiscoveryOrder ==
    \A i, j \in 1..Len(relevant_groups) :
        (i < j /\ relevant_groups[i].relevance_score = relevant_groups[j].relevance_score)
            => DiscoveryIndex(relevant_groups[i].name) < DiscoveryIndex(relevant_groups[j].name)

\* C13: for every object type and query the groups identified are at most 5, listed by
\* score in non-increasing order with equal-score groups in discovery order, and no group
\* left out has a higher score than a returned one.
C13_CappedRankedStable ==
    GroupsIdentified => (CappedAndRanked /\ TiesInDiscoveryOrder)

\* C13 as the code has it: equal-score groups keep discovery order whenever some group
\* scores above 0; the rest of the statement holds for every query.
C13_CappedRankedStableWhenScored ==
    GroupsIdentified => (CappedAndRanked /\ (SomeGroupScores => TiesInDiscoveryOrder))

\* More than 5 groups score, two of the returned ones tie and two differ, and a scoring
\* group was left out
C13_Witness ==
    /\ GroupsIdentified
    /\ Cardinality({i \in 1..Len(CachedGroups) : ScoreOf(CachedGroups[i].key) > 0}) > 5
    /\ Len(relevant_groups) = 5
    /\ \E i, j \in 1..Len(relevant_groups) :
          /\ i < j
          /\ relevant_groups[i].relevance_score = relevant_groups[j].relevance_score
          /\ DiscoveryIndex(relevant_groups[i].name) < DiscoveryIndex(relevant_groups[j].name)
    /\ relevant_groups[1].relevance_score > relevant_groups[5].relevance_score
    /\ \E out \in LeftOutNames : ScoreOf(out) > 0

\* The cached groups that carry a display label
GroupsLabelled(label) ==
    {CachedGroups[i].key : i \in {k \in 1..Len(CachedGroups) : CachedGroups[k].val.display_name = label}}

\* The place of a group in the list returned
RankOf(name) == CHOOSE i \in 1..Len(relevant_groups) : relevant_groups[i].name = name

\* C14: for the query "billing contact" a group labelled "Billing Information" scores at
\* least as high as a group labelled "Customer Success", and whenever the latter is
\* returned the former is returned before it, whatever the properties of the two groups
\* and their discovery order.
C14_BillingAboveSuccess ==
    (GroupsIdentified /\ call.user_query = Q_billing_contact) =>
        \A b \in GroupsLabelled(<<"B","i","l","l","i","n","g"," ","I","n","f","o","r","m","a","t","i","o","n">>), s \in GroupsLabelled(<<"C","u","s","t","o","m","e","r"," ","S","u","c","c","e","s","s">>) :
            /\ ScoreOf(b) >= ScoreOf(s)
            /\ s \in ReturnedNames => (b \in ReturnedNames /\ RankOf(b) < RankOf(s))

\* The customer success group is discovered first and holds a billing contact property, so
\* that it scores; both groups are returned, the billing group first
C14_Witness ==
    /\ GroupsIdentified
    /\ call.user_query = Q_billing_contact
    /\ \E b \in GroupsLabelled(<<"B","i","l","l","i","n","g"," ","I","n","f","o","r","m","a","t","i","o","n">>), s \in GroupsLabelled(<<"C","u","s","t","o","m","e","r"," ","S","u","c","c","e","s","s">>) :
          /\ DiscoveryIndex(s) < DiscoveryIndex(b)
          /\ HasKey(Get(CachedGroups, s).properties, <<"b","i","l","l","i","n","g","_","c","o","n","t","a","c","t">>)
          /\ ScoreOf(s) > 0
          /\ {b, s} \subseteq ReturnedNames
          /\ RankOf(b) < RankOf(s)

\* C15: the resolver always gets a non-empty search scope: the list of groups is non-empty
\* for every query, and when no group scores above 0 it is the common groups present in
\* the cache, in the order company information, billing, customer success, each with
\* score 0.
C15_NonEmptyScope ==
    GroupsIdentified =>
        /\ relevant_groups # <<>>
        /\ ~SomeGroupScores =>
              /\ [i \in 1..Len(relevant_groups) |-> relevant_groups[i].name]
                    = SelectSeq(common_groups, LAMBDA n : HasKey(CachedGroups, n))
              /\ \A i \in 1..Len(relevant_groups) : relevant_groups[i].relevance_score = 0

(***************************************************************************)
(* The Schema Cache (PropertyDiscoveryService) and the Value Index cache   *)
(* (ValueDiscoveryService) under the tasks of one event loop.  A task runs *)
(* from one await to the next in one step; the clock may advance and the   *)
(* loop may drop a pending task between steps.                             *)
(***************************************************************************)
CACHE_DURATION == 3600

MaxTicks == 2
MaxCalls == 3

\* The clock is read in steps of half the cache duration
TickLength == CACHE_DURATION \div 2

\* The object types the modelled callers fetch
CacheTypes == {"companies", "contacts"}

\* What the remote portal answers with when it answers
RemoteOwners == OwnersTyler

RemoteSchema(object_type) == IF object_type = "companies" THEN SchemaBasic ELSE SchemaRich

\* del d[k] when k is in d
Without(d, k) == [x \in DOMAIN d \ {k} |-> d[x]]

\* d[k] = v on a dict held as a function
With(d, k, v) == [x \in DOMAIN d \cup {k} |-> IF x = k THEN v ELSE d[x]]

\* Faulty variant: an entry is still valid at the very moment it expires
is_cache_valid_inclusive(cache, cache_expiry, key, time) ==
    /\ key \in DOMAIN cache
    /\ time <= (IF key \in DOMAIN cache_expiry THEN cache_expiry[key] ELSE 0)

\* _is_cache_valid of either service
is_cache_valid(cache, cache_expiry, key, time) ==
    /\ key \in DOMAIN cache
    /\ time < (IF key \in DOMAIN cache_expiry THEN cache_expiry[key] ELSE 0)

Suspended == {"await_owners", "await_options", "await_schema"}

\* A refresh_cache of the service is suspended on the key, having deleted an entry
RefreshPending(service, key) ==
    \E r \in Tasks :
        /\ tasks[r].service = service /\ tasks[r].op = "refresh_cache"
        /\ tasks[r].object_type = key /\ tasks[r].pc \in Suspended
        /\ tasks[r].had_entry

\* A finished coroutine hands its result to the caller awaiting it before the event loop
\* runs anything else
CallersResumed == \A t \in Tasks : tasks[t].pc \notin {"done", "dropped"}

\* A new coroutine takes the first free slot
FreeSlot(t) ==
    /\ CallersResumed
    /\ tasks[t].pc = "idle"
    /\ t = "b" => tasks["a"].pc # "idle"

\* The task a call becomes at its entry
Entered(service, op, object_type, had_entry) ==
    [NoTask EXCEPT !.service = service, !.op = op, !.object_type = object_type,
                   !.had_entry = had_entry]

\* What the caller of the task gets: refresh_cache hands out counts, the fetches the mapping
Returned(task, mappings) ==
    IF task.op # "refresh_cache" THEN mappings
    ELSE <<[key |-> task.object_type,
            val |-> IF task.service = "values" THEN total_values(mappings)
                    ELSE Len(mappings)]>>

(* ValueDiscoveryService *)

\* discover_all_property_values from its entry: answered from a valid entry, or suspended
\* at the request for the owner directory
DiscoverEntry(task, value_cache_now, cache_expiry_now) ==
    IF is_cache_valid(value_cache_now, cache_expiry_now, task.object_type, now)
    THEN [task EXCEPT !.pc = "done", !.result = value_cache_now[task.object_type]]
    ELSE [task EXCEPT !.pc = "await_owners", !.contacted = TRUE]

\* A caller awaits discover_all_property_values(object_type)
DiscoverAllPropertyValues(t, object_type) ==
    /\ FreeSlot(t)
    /\ started < MaxCalls
    /\ started' = started + 1
    /\ LET task == Entered("values", "discover_all_property_values", object_type,
                           object_type \in DOMAIN vd_value_cache)
           missed == object_type \notin DOMAIN vd_value_cache
                     /\ RefreshPending("values", object_type)
       IN  tasks' = [tasks EXCEPT ![t] =
                        DiscoverEntry([task EXCEPT !.missed = missed],
                                      vd_value_cache, vd_cache_expiry)]
    /\ UNCHANGED <<resolver_vars, vd_vars, refresh_vars, now, vd_value_cache, vd_cache_expiry, pd_cache,
                   pd_cache_expiry, fetched_at>>

\* A caller awaits ValueDiscoveryService.refresh_cache(object_type): both entries of the
\* key are deleted, then discover_all_property_values is awaited
ValueRefreshCache(t, object_type) ==
    /\ FreeSlot(t)
    /\ started < MaxCalls
    /\ started' = started + 1
    /\ vd_value_cache' = Without(vd_value_cache, object_type)
    /\ vd_cache_expiry' = Without(vd_cache_expiry, object_type)
    /\ fetched_at' = [fetched_at EXCEPT !.values = Without(@, object_type)]
    /\ tasks' = [tasks EXCEPT ![t] =
                    DiscoverEntry(Entered("values", "refresh_cache", object_type,
                                          object_type \in DOMAIN vd_value_cache),
                                  Without(vd_value_cache, object_type),
                                  Without(vd_cache_expiry, object_type))]
    /\ UNCHANGED <<resolver_vars, vd_vars, refresh_vars, now, pd_cache, pd_cache_expiry>>

\* _discover_owners is over with owners_mapping, lines 38-40; the task goes on to the
\* request for the schema
OwnersDone(t, owners_mapping, raised) ==
    /\ CallersResumed
    /\ tasks[t].pc = "await_owners"
    /\ tasks' = [tasks EXCEPT ![t] =
                    [@ EXCEPT !.pc = "await_options",
                              !.raised = raised,
                              !.all_value_mappings =
                                  IF owners_mapping # <<>>
                                  THEN Put(Put(EmptyDict, P_hubspot_owner_id, owners_mapping),
                                           P_company_owner, owners_mapping)
                                  ELSE EmptyDict]]
    /\ UNCHANGED <<resolver_vars, vd_vars, refresh_vars, now, started, vd_value_cache, vd_cache_expiry,
                   pd_cache, pd_cache_expiry, fetched_at>>

\* Faulty variant: the owner mappings are written into the cache entry as soon as they
\* are known
OwnersAnswer_writes_through(t) ==
    /\ CallersResumed
    /\ tasks[t].pc = "await_owners"
    /\ LET owners_mapping == discover_owners(RemoteOwners)
           partial == Put(Put(EmptyDict, P_hubspot_owner_id, owners_mapping),
                          P_company_owner, owners_mapping)
       IN  /\ tasks' = [tasks EXCEPT ![t] =
                           [@ EXCEPT !.pc = "await_options", !.all_value_mappings = partial]]
           /\ vd_value_cache' = With(vd_value_cache, tasks[t].object_type, partial)
    /\ UNCHANGED <<resolver_vars, vd_vars, refresh_vars, now, started, vd_cache_expiry,
                   pd_cache, pd_cache_expiry, fetched_at>>

\* The owner directory answers
OwnersAnswer(t) == OwnersDone(t, discover_owners(RemoteOwners), FALSE)

\* The owner directory raises: _discover_owners catches it and returns {}
OwnersRaise(t) == OwnersDone(t, EmptyDict, TRUE)

\* _discover_property_options is over with property_options, lines 44-50: the mappings
\* are stored with their expiry and returned
OptionsDone(t, property_options, raised) ==
    /\ CallersResumed
    /\ tasks[t].pc = "await_options"
    /\ LET key == tasks[t].object_type
           all_value_mappings == Update(tasks[t].all_value_mappings, property_options)
       IN  /\ vd_value_cache' = With(vd_value_cache, key, all_value_mappings)
           /\ vd_cache_expiry' = With(vd_cache_expiry, key, now + CACHE_DURATION)
           /\ fetched_at' = [fetched_at EXCEPT !.values = With(@, key, now)]
           /\ tasks' = [tasks EXCEPT ![t] =
                           [@ EXCEPT !.pc = "done",
                                     !.raised = @ \/ raised,
                                     !.all_value_mappings = all_value_mappings,
                                     !.result = Returned(tasks[t], all_value_mappings)]]
    /\ UNCHANGED <<resolver_vars, vd_vars, refresh_vars, now, started, pd_cache, pd_cache_expiry>>

\* The schema collaborator answers the Value Index
OptionsAnswer(t) ==
    /\ CallersResumed
    /\ tasks[t].pc = "await_options"
    /\ OptionsDone(t, discover_property_options(RemoteSchema(tasks[t].object_type)), FALSE)

\* The schema collaborator raises: _discover_property_options catches it and returns {}
OptionsRaise(t) == OptionsDone(t, EmptyDict, TRUE)

(* PropertyDiscoveryService *)

\* fetch_all_properties from its entry: answered from a valid entry, or suspended at the
\* request for the schema
FetchEntry(task, cache_now, cache_expiry_now) ==
    IF is_cache_valid(cache_now, cache_expiry_now, task.object_type, now)
    THEN [task EXCEPT !.pc = "done", !.result = cache_now[task.object_type]]
    ELSE [task EXCEPT !.pc = "await_schema", !.contacted = TRUE]

\* A caller awaits fetch_all_properties(object_type)
FetchAllProperties(t, object_type) ==
    /\ FreeSlot(t)
    /\ started < MaxCalls
    /\ started' = started + 1
    /\ LET task == Entered("schema", "fetch_all_properties", object_type,
                           object_type \in DOMAIN pd_cache)
           missed == object_type \notin DOMAIN pd_cache /\ RefreshPending("schema", object_type)
       IN  tasks' = [tasks EXCEPT ![t] =
                        FetchEntry([task EXCEPT !.missed = missed], pd_cache, pd_cache_expiry)]
    /\ UNCHANGED <<resolver_vars, vd_vars, refresh_vars, now, vd_value_cache, vd_cache_expiry, pd_cache,
                   pd_cache_expiry, fetched_at>>

\* A caller awaits fetch_hierarchical_properties(object_type): no cache is read
FetchHierarchicalProperties(t, object_type) ==
    /\ FreeSlot(t)
    /\ started < MaxCalls
    /\ started' = started + 1
    /\ tasks' = [tasks EXCEPT ![t] =
                    [Entered("schema", "fetch_hierarchical_properties", object_type,
                             object_type \in DOMAIN pd_cache)
                        EXCEPT !.pc = "await_schema", !.contacted = TRUE]]
    /\ UNCHANGED <<resolver_vars, vd_vars, refresh_vars, now, vd_value_cache, vd_cache_expiry, pd_cache,
                   pd_cache_expiry, fetched_at>>

\* A caller awaits PropertyDiscoveryService.refresh_cache(object_type): both entries of
\* the object type are deleted, then fetch_all_properties is awaited
SchemaRefreshCache(t, object_type) ==
    /\ FreeSlot(t)
    /\ started < MaxCalls
    /\ started' = started + 1
    /\ pd_cache' = Without(pd_cache, object_type)
    /\ pd_cache_expiry' = Without(pd_cache_expiry, object_type)
    /\ fetched_at' = [fetched_at EXCEPT !.schema = Without(@, object_type)]
    /\ tasks' = [tasks EXCEPT ![t] =
                    FetchEntry(Entered("schema", "refresh_cache", object_type,
                                       object_type \in DOMAIN pd_cache),
                               Without(pd_cache, object_type),
                               Without(pd_cache_expiry, object_type))]
    /\ UNCHANGED <<resolver_vars, vd_vars, refresh_vars, now, vd_value_cache, vd_cache_expiry>>

\* The schema collaborator answers: fetch_hierarchical_properties returns the groups,
\* fetch_all_properties stores the mappings with their expiry and returns them
SchemaAnswer(t) ==
    /\ CallersResumed
    /\ tasks[t].pc = "await_schema"
    /\ LET key == tasks[t].object_type
           properties == RemoteSchema(key)
           mappings == process_properties(properties)
       IN  IF tasks[t].op = "fetch_hierarchical_properties"
           THEN /\ tasks' = [tasks EXCEPT ![t] =
                                [@ EXCEPT !.pc = "done",
                                          !.result = organize_by_groups(properties)]]
                /\ UNCHANGED <<pd_cache, pd_cache_expiry, fetched_at>>
           ELSE /\ pd_cache' = With(pd_cache, key, mappings)
                /\ pd_cache_expiry' = With(pd_cache_expiry, key, now + CACHE_DURATION)
                /\ fetched_at' = [fetched_at EXCEPT !.schema = With(@, key, now)]
                /\ tasks' = [tasks EXCEPT ![t] =
                                [@ EXCEPT !.pc = "done",
                                          !.result = Returned(tasks[t], mappings)]]
    /\ UNCHANGED <<resolver_vars, vd_vars, refresh_vars, now, started, vd_value_cache, vd_cache_expiry>>

\* Faulty variant: the empty mapping of a failed fetch is stored like a fetched one
SchemaRaise_caches_empty(t) ==
    /\ CallersResumed
    /\ tasks[t].pc = "await_schema"
    /\ tasks' = [tasks EXCEPT ![t] =
                    [@ EXCEPT !.pc = "done", !.raised = TRUE,
                              !.result = Returned(tasks[t], EmptyDict)]]
    /\ pd_cache' = With(pd_cache, tasks[t].object_type, EmptyDict)
    /\ pd_cache_expiry' = With(pd_cache_expiry, tasks[t].object_type, now + CACHE_DURATION)
    /\ UNCHANGED <<resolver_vars, vd_vars, refresh_vars, now, started, vd_value_cache, vd_cache_expiry,
                   fetched_at>>

\* The schema collaborator raises: the except clause returns {} and stores nothing
SchemaRaise(t) ==
    /\ CallersResumed
    /\ tasks[t].pc = "await_schema"
    /\ tasks' = [tasks EXCEPT ![t] =
                    [@ EXCEPT !.pc = "done", !.raised = TRUE,
                              !.result = Returned(tasks[t], EmptyDict)]]
    /\ UNCHANGED <<resolver_vars, vd_vars, refresh_vars, now, started, vd_value_cache, vd_cache_expiry,
                   pd_cache, pd_cache_expiry, fetched_at>>

(* The event loop *)

\* The owner of the event loop drops a pending task at its suspension point
Drop(t) ==
    /\ CallersResumed
    /\ tasks[t].pc \in Suspended
    /\ tasks' = [tasks EXCEPT ![t] = [@ EXCEPT !.pc = "dropped"]]
    /\ UNCHANGED <<resolver_vars, vd_vars, refresh_vars, now, started, vd_value_cache, vd_cache_expiry,
                   pd_cache, pd_cache_expiry, fetched_at>>

\* The caller has the result of the task, or the task is gone
TaskReturn(t) ==
    /\ tasks[t].pc \in {"done", "dropped"}
    /\ tasks' = [tasks EXCEPT ![t] = NoTask]
    /\ UNCHANGED <<resolver_vars, vd_vars, refresh_vars, now, started, vd_value_cache, vd_cache_expiry,
                   pd_cache, pd_cache_expiry, fetched_at>>

\* Time passes
Tick ==
    /\ CallersResumed
    /\ now < MaxTicks * TickLength
    /\ now' = now + TickLength
    /\ UNCHANGED <<resolver_vars, vd_vars, refresh_vars, tasks, started, vd_value_cache, vd_cache_expiry,
                   pd_cache, pd_cache_expiry, fetched_at>>

InitCache ==
    /\ flat_cache = load_encyclopedia_cache(FilesOf(NoFile))
    /\ hier_cache = load_hierarchical_cache(FilesOf(NoFile))
    /\ encyclopedia_dir = StoredFiles(NoFile)
    /\ ResolverIdle
    /\ value_cache = EmptyDict
    /\ VdIdle
    /\ CacheIdle
    /\ RefreshIdle

NextCache ==
    \/ \E t \in Tasks, k \in CacheTypes : DiscoverAllPropertyValues(t, k)
    \/ \E t \in Tasks, k \in CacheTypes : ValueRefreshCache(t, k)
    \/ \E t \in Tasks : OwnersAnswer(t)
    \/ \E t \in Tasks : OwnersRaise(t)
    \/ \E t \in Tasks : OptionsAnswer(t)
    \/ \E t \in Tasks : OptionsRaise(t)
    \/ \E t \in Tasks, k \in CacheTypes : FetchAllProperties(t, k)
    \/ \E t \in Tasks, k \in CacheTypes : FetchHierarchicalProperties(t, k)
    \/ \E t \in Tasks, k \in CacheTypes : SchemaRefreshCache(t, k)
    \/ \E t \in Tasks : SchemaAnswer(t)
    \/ \E t \in Tasks : SchemaRaise(t)
    \/ \E t \in Tasks : Drop(t)
    \/ \E t \in Tasks : TaskReturn(t)
    \/ Tick

SpecCache == InitCache /\ [][NextCache]_vars

(***************************************************************************)
(* Properties of the caches                                                *)
(***************************************************************************)
\* What discover_all_property_values fetches for an object type when both collaborators
\* answer
FetchedMappings(object_type) ==
    discover_all_property_values(RemoteOwners, RemoteSchema(object_type))

\* C16: a collaborator failure degrades only the call in which it happens: a
\* discover_all_property_values call during which no collaborator raised returns the
\* fetched mappings, never the empty or owner-less result of an earlier failed call.
C16_FailureDegradesOneCall ==
    \A t \in Tasks :
        (/\ tasks[t].op = "discover_all_property_values"
         /\ tasks[t].pc = "done"
         /\ ~tasks[t].raised)
            => tasks[t].result = FetchedMappings(tasks[t].object_type)

\* The entry of a key in a store, or nothing
EntryOf(store, key) == IF key \in DOMAIN store THEN <<store[key]>> ELSE <<>>

SchemaFetches == {"fetch_all_properties", "fetch_hierarchical_properties"}

\* C17: when the schema collaborator raises during fetch_all_properties or
\* fetch_hierarchical_properties the call returns an empty mapping, and no step of the
\* call up to and including that return changes the cached entry or the expiry time of
\* the object type.
C17_FailedFetchLeavesCache ==
    [][\A t \in Tasks :
          LET before == tasks[t]
              after == tasks'[t]
              key == after.object_type
              untouched == /\ EntryOf(pd_cache', key) = EntryOf(pd_cache, key)
                           /\ EntryOf(pd_cache_expiry', key) = EntryOf(pd_cache_expiry, key)
          IN  (after.service = "schema" /\ after.op \in SchemaFetches) =>
                 /\ (before.pc = "idle" /\ after.pc = "await_schema") => untouched
                 /\ (before.pc = "await_schema" /\ after.pc = "done" /\ after.raised) =>
                       (after.result = EmptyDict /\ untouched)]_vars

\* A fetch_all_properties call found an expired entry, the collaborator raised, the call
\* returned {} and the expired entry is still in the cache
C17_Witness ==
    \E t \in Tasks :
        /\ tasks[t].op = "fetch_all_properties"
        /\ tasks[t].pc = "done"
        /\ tasks[t].raised
        /\ tasks[t].had_entry
        /\ tasks[t].result = EmptyDict
        /\ tasks[t].object_type \in DOMAIN pd_cache
        /\ pd_cache[tasks[t].object_type] # EmptyDict
        /\ pd_cache_expiry[tasks[t].object_type] <= now

\* The two stores of a service
CacheOf(service) == IF service = "values" THEN vd_value_cache ELSE pd_cache

ExpiryOf(service) == IF service = "values" THEN vd_cache_expiry ELSE pd_cache_expiry

CachedReads == {"fetch_all_properties", "discover_all_property_values"}

\* C18: fetch_all_properties and discover_all_property_values contact the collaborator if
\* and only if the cache holds no entry for the key or the entry was stored at least
\* 3600 s ago; otherwise the call returns the cached mapping without a fetch; and the
\* expiry of a key changes only in a step of a call for that very key.
C18_FetchIffAbsentOrExpired ==
    [][/\ \A t \in Tasks :
             LET before == tasks[t]
                 after == tasks'[t]
                 key == after.object_type
                 cache == CacheOf(after.service)
                 fresh == /\ key \in DOMAIN cache
                          /\ now < fetched_at[after.service][key] + 3600
             IN  (before.pc = "idle" /\ after.op \in CachedReads) =>
                    IF fresh
                    THEN after.pc = "done" /\ ~after.contacted /\ after.result = cache[key]
                    ELSE after.pc \in Suspended /\ after.contacted
       /\ \A service \in {"values", "schema"}, key \in CacheTypes :
             EntryOf(ExpiryOf(service)', key) # EntryOf(ExpiryOf(service), key) =>
                \E t \in Tasks : /\ tasks'[t] # tasks[t]
                                 /\ tasks'[t].service = service
                                 /\ tasks'[t].object_type = key]_vars

\* A call found an entry stored 3600 s ago or earlier and went to the collaborator, while
\* the entry of another key of the same service is held with its own expiry
C18_Witness ==
    \E t \in Tasks :
        /\ tasks[t].op \in CachedReads
        /\ tasks[t].had_entry
        /\ tasks[t].contacted
        /\ tasks[t].pc \in Suspended
        /\ \E other \in DOMAIN ExpiryOf(tasks[t].service) :
              /\ other # tasks[t].object_type
              /\ ExpiryOf(tasks[t].service)[other] > now

\* C19: once the entry of an object type has been populated, no reader of the key finds
\* it absent while a refresh_cache of that key is suspended at its fetch.
C19_ReaderFindsEntry == \A t \in Tasks : ~tasks[t].missed

\* The results discover_all_property_values can finish with for an object type: each
\* collaborator answered or raised
CompleteValues(object_type) ==
    {discover_all_property_values(o, p) :
        o \in {<<>>, RemoteOwners}, p \in {<<>>, RemoteSchema(object_type)}}

\* C20: at every suspension point, also after a pending task has been dropped, each cache
\* key is in both the value store and the expiry store or in neither, and every stored
\* value is the complete result of a finished fetch.
C20_WholeValueReplacement ==
    /\ DOMAIN vd_value_cache = DOMAIN vd_cache_expiry
    /\ DOMAIN pd_cache = DOMAIN pd_cache_expiry
    /\ \A key \in DOMAIN vd_value_cache : vd_value_cache[key] \in CompleteValues(key)
    /\ \A key \in DOMAIN pd_cache : pd_cache[key] = process_properties(RemoteSchema(key))

\* A Value Index task was dropped while it awaited the schema, the owner mappings already
\* in its hands; nothing of them is in the cache, and another key is held whole
C20_Witness ==
    \E t \in Tasks :
        /\ tasks[t].service = "values"
        /\ tasks[t].pc = "dropped"
        /\ tasks[t].all_value_mappings # EmptyDict
        /\ tasks[t].object_type \notin DOMAIN vd_value_cache
        /\ DOMAIN vd_value_cache # {}

(***************************************************************************)
(* The service as main.py wires it: the refresh of the encyclopedia        *)
(* (EncyclopediaService), the flat resolver constructed at start-up and    *)
(* the search endpoint that calls it                                       *)
(***************************************************************************)
MaxRefreshes == 2
MaxFailures == 1

\* The requests export_full_encyclopedia has its collaborators make for one object type
ExportRequests == {"schema", "owners", "options", "sample"}

\* What the record sampling answers with when it answers
SampleRecords == <<[id |-> 1]>>

\* property_discovery.fetch_all_properties(obj_type) as the export awaits it: a valid
\* entry is returned, a fetched mapping is stored, a failed fetch yields {} and raises
\* nothing
FetchedProperties(object_type, answered) ==
    IF is_cache_valid(pd_cache, pd_cache_expiry, object_type, now)
    THEN [result |-> pd_cache[object_type], contacted |-> FALSE, stored |-> FALSE,
          raised |-> FALSE]
    ELSE IF answered
         THEN [result |-> process_properties(RemoteSchema(object_type)), contacted |-> TRUE,
               stored |-> TRUE, raised |-> FALSE]
         ELSE [result |-> EmptyDict, contacted |-> TRUE, stored |-> FALSE, raised |-> FALSE]

\* value_discovery.discover_all_property_values(obj_type) as the export awaits it: a
\* valid entry is returned; otherwise what the owner directory and the schema yield is
\* stored, a failed request counting as an empty answer, and nothing is raised
DiscoveredValues(object_type, owners_answered, options_answered) ==
    IF is_cache_valid(vd_value_cache, vd_cache_expiry, object_type, now)
    THEN [result |-> vd_value_cache[object_type], contacted |-> FALSE, raised |-> FALSE]
    ELSE [result |-> discover_all_property_values(
                         IF owners_answered THEN RemoteOwners ELSE <<>>,
                         IF options_answered THEN RemoteSchema(object_type) ELSE <<>>),
          contacted |-> TRUE, raised |-> FALSE]

\* _sample_object_data: a failed request yields [] and raises nothing
sample_object_data(answered) ==
    [result |-> IF answered THEN SampleRecords ELSE <<>>, raised |-> FALSE]

\* encyclopedia[obj_type] of lines 61-69
ExportedEntry(property_mappings, value_mappings, sample_data) ==
    [property_mappings |-> property_mappings,
     value_mappings |-> value_mappings,
     sample_data |-> sample_data,
     total_properties |-> Len(property_mappings),
     total_value_mappings |-> total_values(value_mappings),
     sample_records |-> Len(sample_data)]

\* encyclopedia[obj_type] of the except branch, lines 82-85
ErrorEntry == [error |-> "exception"]

HasError(entry) == "error" \in DOMAIN entry

\* clean_data of save_encyclopedia_to_files; stamp is the export_info of the refresh
clean_data(entry, stamp) ==
    [loaded |-> TRUE, stamp |-> stamp,
     property_mappings |-> entry.property_mappings,
     value_mappings |-> entry.value_mappings,
     groups |-> EmptyDict]

\* save_encyclopedia_to_files: the per-object files after the save.  The file of an
\* object type without an entry, or with an error entry, is left as it is
save_encyclopedia_to_files(exported, dir, stamp) ==
    [t \in SeqToSet(ObjectTypes) |->
        IF t \in DOMAIN exported /\ ~HasError(exported[t])
        THEN clean_data(exported[t], stamp)
        ELSE dir[t]]

\* POST /encyclopedia/refresh: refresh_encyclopedia up to the first await of the export
RefreshStart ==
    /\ refresh_pc = 0
    /\ refreshes < MaxRefreshes
    /\ refresh_pc' = 1
    /\ encyclopedia' = NoEncyclopedia
    /\ export_failures' = {}
    /\ UNCHANGED <<resolver_vars, vd_vars, cache_vars, encyclopedia_dir, refreshes>>

\* One turn of the loop of export_full_encyclopedia.  The flags say which of the
\* requests the collaborators answer.  After the last object type the encyclopedia is
\* saved and refresh_encyclopedia returns
ExportObject(schema_ok, owners_ok, options_ok, sample_ok) ==
    /\ refresh_pc \in 1..Len(ObjectTypes)
    /\ LET obj_type == ObjectTypes[refresh_pc]
           schema_asked == ~is_cache_valid(pd_cache, pd_cache_expiry, obj_type, now)
           values_asked == ~is_cache_valid(vd_value_cache, vd_cache_expiry, obj_type, now)
           failed ==
               {<<obj_type, r>> : r \in
                   {r \in ExportRequests :
                       \/ r = "schema" /\ schema_asked /\ ~schema_ok
                       \/ r = "owners" /\ values_asked /\ ~owners_ok
                       \/ r = "options" /\ values_asked /\ ~options_ok
                       \/ r = "sample" /\ ~sample_ok}}
           fetched == FetchedProperties(obj_type, schema_ok)
           discovered == DiscoveredValues(obj_type, owners_ok, options_ok)
           sampled == sample_object_data(sample_ok)
           entry == IF fetched.raised \/ discovered.raised \/ sampled.raised
                    THEN ErrorEntry
                    ELSE ExportedEntry(fetched.result, discovered.result, sampled.result)
           exported == With(encyclopedia, obj_type, entry)
       IN  /\ Cardinality(export_failures \cup failed) <= MaxFailures
           /\ export_failures' = export_failures \cup failed
           /\ encyclopedia' = exported
           /\ IF fetched.stored
              THEN /\ pd_cache' = With(pd_cache, obj_type, fetched.result)
                   /\ pd_cache_expiry' = With(pd_cache_expiry, obj_type, now + CACHE_DURATION)
              ELSE UNCHANGED <<pd_cache, pd_cache_expiry>>
           /\ IF discovered.contacted
              THEN /\ vd_value_cache' = With(vd_value_cache, obj_type, discovered.result)
                   /\ vd_cache_expiry' = With(vd_cache_expiry, obj_type, now + CACHE_DURATION)
              ELSE UNCHANGED <<vd_value_cache, vd_cache_expiry>>
           /\ fetched_at' =
                 [schema |-> IF fetched.stored THEN With(fetched_at.schema, obj_type, now)
                             ELSE fetched_at.schema,
                  values |-> IF discovered.contacted
                             THEN With(fetched_at.values, obj_type, now)
                             ELSE fetched_at.values]
           /\ IF refresh_pc < Len(ObjectTypes)
              THEN /\ refresh_pc' = refresh_pc + 1
                   /\ UNCHANGED <<encyclopedia_dir, refreshes>>
              ELSE /\ refresh_pc' = 0
                   /\ encyclopedia_dir' =
                         save_encyclopedia_to_files(exported, encyclopedia_dir, refreshes + 1)
                   /\ refreshes' = refreshes + 1
    /\ UNCHANGED <<resolver_vars, vd_vars, now, tasks, started>>

Export == \E s, o, p, d \in BOOLEAN : ExportObject(s, o, p, d)

(* POST /search/encyclopedia *)

\* The parameters of EncyclopediaResolver.resolve_and_search besides self
resolve_and_search_parameters == {"object_type", "user_query", "limit"}

\* The keywords encyclopedia_search passes
search_keywords == {"object_type", "user_query", "limit", "user_email"}

\* Python binds a call only when every keyword names a parameter; otherwise the call
\* raises TypeError before the body runs
Binds(keywords, parameters) == keywords \subseteq parameters

valid_types == {"companies", "contacts", "deals", "tickets"}

\* The object types asked of the endpoint
EndpointTypes == {"companies", "leads"}

\* What the caller gets when the handler raises HTTPException
HTTPException(status_code) == [status_code |-> status_code]

\* encyclopedia_search.  The HTTPException of an invalid object type and the TypeError
\* of the call both end in the except clause, which raises HTTPException(500)
encyclopedia_search(object_type, user_query, limit, user_email) ==
    /\ pc = "idle"
    /\ IF object_type \in valid_types /\ Binds(search_keywords, resolve_and_search_parameters)
       THEN /\ FlatCall(object_type, user_query)
            /\ call'.limit = limit
       ELSE /\ call' = [kind |-> "endpoint", object_type |-> object_type,
                        user_query |-> user_query, limit |-> limit,
                        user_email |-> user_email]
            /\ stages' = <<IF object_type \in valid_types THEN "TypeError"
                           ELSE "HTTPException">>
            /\ response' = <<HTTPException(500)>>
            /\ pc' = "done"
            /\ UNCHANGED <<flat_cache, hier_cache, relevant_groups, query_analysis, filters,
                           results, search_calls, vd_vars, cache_vars, refresh_vars>>

\* The query asked while the encyclopedia is refreshed
RefreshQueries == {<<"T","y","l","e","r"," ","P","r","i","c","e","'","s"," ","a","c","t","i","v","e"," ","c","o","m","p","a","n","i","e","s">>}

\* The exports the service may have started on: those of the portals with the basic schema
ServiceExportIds == {id \in 1..Len(Portals) : Portals[id].properties = SchemaBasic}

\* A client of the search endpoint
EndpointRequest ==
    \E t \in EndpointTypes, q \in RefreshQueries, l \in Limits, e \in Emails :
        encyclopedia_search(t, q, l, e)

\* A caller of resolve_and_search of the resolver of main.py
ResolverRequest ==
    /\ pc = "idle"
    /\ \E t \in StoredTypes, q \in RefreshQueries : FlatCall(t, q)

\* The service has started on the files of a flat export
InitService ==
    /\ \E id \in ServiceExportIds :
          /\ flat_cache = load_encyclopedia_cache(FilesOf(id))
          /\ hier_cache = load_hierarchical_cache(FilesOf(id))
          /\ encyclopedia_dir = StoredFiles(id)
    /\ ResolverIdle
    /\ value_cache = EmptyDict
    /\ VdIdle
    /\ CacheIdle
    /\ RefreshIdle

NextService ==
    \/ RefreshStart
    \/ Export
    \/ ResolverRequest
    \/ EndpointRequest
    \/ SearchAnswer
    \/ SearchRaises
    \/ Return

SpecService == InitService /\ [][NextService]_vars

(***************************************************************************)
(* Claims about the refresh and the search endpoint                        *)
(***************************************************************************)
\* A refresh has been completed and persisted, and none is running
RefreshOver == refresh_pc = 0 /\ refreshes > 0

\* The object types whose schema or owner-directory request failed during the export
FailedTypes ==
    {t \in SeqToSet(ObjectTypes) :
        <<t, "schema">> \in export_failures \/ <<t, "owners">> \in export_failures}

\* C21: when a refresh is over, the returned encyclopedia holds an error marker for
\* every object type whose schema or owner-directory fetch failed and a complete entry
\* for every other type, and the file of a failed type is not one this refresh wrote
C21_FailedTypeKeepsFile ==
    RefreshOver =>
        \A t \in SeqToSet(ObjectTypes) :
            IF t \in FailedTypes
            THEN HasError(encyclopedia[t]) /\ encyclopedia_dir[t].stamp # refreshes
            ELSE ~HasError(encyclopedia[t])

\* resolve_and_search of the flat resolver is entered after a refresh was persisted
CallAfterRefresh ==
    /\ RefreshOver
    /\ pc = "idle" /\ pc' = "searching"
    /\ call'.kind = "flat"

\* C22: a resolve_and_search call made on the resolver of main.py after a refresh has
\* been persisted resolves its filters against the persisted encyclopedia of the
\* object type, not against the one loaded at construction
C22_ResolvesAgainstRefreshed ==
    [][CallAfterRefresh =>
          filters' = resolve_query_to_filters(AsData(encyclopedia_dir[call'.object_type]),
                                              call'.user_query)]_vars

ResultKeys ==
    {"query", "object_type", "query_analysis", "resolved_filters", "results",
     "total_returned", "limit_applied", "note"}

\* C23: every call for a valid object type that is over, made with the identity hint
\* or without, has handed its caller a result holding query, object_type,
\* query_analysis, resolved_filters, results, total_returned, limit_applied and note
C23_HintedCallCompletes ==
    (pc = "done" /\ call.object_type \in valid_types) =>
        (response # <<>> /\ ResultKeys \subseteq DOMAIN response[1])

(***************************************************************************)
(* Label matching: both resolvers on the label portals                     *)
(***************************************************************************)
\* Queries in which labels overlap, several labels of a category occur, a renewal term
\* occurs with and without "upcoming", two known cities occur, and two groups are named
LabelQueries ==
    {<<"p","e","n","d","i","n","g"," ","c","a","n","c","e","l","l","a","t","i","o","n"," ","c","o","m","p","a","n","i","e","s">>,
     <<"c","o","m","p","a","n","i","e","s"," ","u","p"," ","f","o","r"," ","r","e","n","e","w","a","l">>,
     <<"u","p","c","o","m","i","n","g"," ","p","e","n","d","i","n","g"," ","c","o","m","p","a","n","i","e","s">>,
     <<"e","n","t","e","r","p","r","i","s","e"," ","t","e","c","h","n","o","l","o","g","y"," ","c","o","m","p","a","n","i","e","s">>,
     <<"c","o","m","p","a","n","i","e","s"," ","w","i","t","h"," ","u","p","c","o","m","i","n","g"," ","t","e","x","t","i","n","g"," ","r","e","n","e","w","a","l">>,
     <<"c","o","m","p","a","n","i","e","s"," ","w","i","t","h"," ","u","p","c","o","m","i","n","g"," ","r","e","n","e","w","a","l"," ","d","u","e">>,
     <<"c","o","m","p","a","n","i","e","s"," ","i","n"," ","D","a","l","l","a","s"," ","a","n","d"," ","A","u","s","t","i","n">>,
     <<"T","y","l","e","r"," ","P","r","i","c","e","'","s"," ","a","n","d"," ","T","y","l","e","r"," ","B","e","a","g","l","e","y","'","s"," ","p","e","n","d","i","n","g"," ","c","o","m","p","a","n","i","e","s">>}

InitLabels ==
    /\ \E id \in LabelExportIds :
          /\ flat_cache = load_encyclopedia_cache(FilesOf(id))
          /\ hier_cache = load_hierarchical_cache(FilesOf(id))
          /\ encyclopedia_dir = StoredFiles(id)
    /\ ResolverIdle
    /\ value_cache = EmptyDict
    /\ VdIdle
    /\ CacheIdle
    /\ RefreshIdle

\* A caller of the flat resolver
LabelFlatRequest ==
    /\ pc = "idle"
    /\ \E t \in StoredTypes, q \in LabelQueries : FlatCall(t, q)

\* A caller of the group-scoped resolver
LabelHierRequest ==
    /\ pc = "idle"
    /\ \E t \in StoredTypes, q \in LabelQueries : HierCall(t, q, <<>>)

NextLabels ==
    \/ LabelFlatRequest
    \/ LabelHierRequest
    \/ SearchAnswer
    \/ SearchRaises
    \/ Return

SpecLabels == InitLabels /\ [][NextLabels]_vars

(***************************************************************************)
(* Claims about label matching and the filters of one call                 *)
(***************************************************************************)
RECURSIVE GroupMappingOf(_, _)
GroupMappingOf(groups, prop) ==
    IF groups = <<>> THEN <<>>
    ELSE IF HasKey(groups[1].val.properties, prop)
         THEN Get(groups[1].val.properties, prop).value_mappings
         ELSE GroupMappingOf(Tail(groups), prop)

\* The ValueMapping the resolver of the call holds for a property: that of the Value Index
\* in the flat resolver, that of the property's entry in its group in the group-scoped one
CallMapping(prop) ==
    IF call.kind = "flat"
    THEN (IF HasKey(CallData.value_mappings, prop) THEN Get(CallData.value_mappings, prop)
          ELSE <<>>)
    ELSE GroupMappingOf(CachedGroups, prop)

\* The labels of a property that occur in the query
Occurring(prop) == SelectSeq(CallMapping(prop), LAMBDA e : StrIn(lower(e.key), CallQuery))

\* Label a is a proper part of label b, case apart
Inside(a, b) == lower(a) # lower(b) /\ StrIn(lower(a), lower(b))

\* Two labels of the property overlap in the query
Overlapping(prop) ==
    \E i, j \in 1..Len(Occurring(prop)) : Inside(Occurring(prop)[i].key, Occurring(prop)[j].key)

\* The occurring labels that are part of no other occurring label
Longest(prop) ==
    SelectSeq(Occurring(prop),
              LAMBDA e : \A i \in 1..Len(Occurring(prop)) : ~Inside(e.key, Occurring(prop)[i].key))

\* C24: when labels of the property of an owner or status filter overlap in the query,
\* the filter carries the internal value of a longest occurring label, whatever the order
\* in which the labels are stored
C24_LongestLabelWins ==
    pc # "idle" =>
        \A i \in 1..Len(filters) :
            (filters[i].category \in {"owner", "status"}
             /\ Overlapping(filters[i].propertyName)) =>
                \E j \in 1..Len(Longest(filters[i].propertyName)) :
                    Longest(filters[i].propertyName)[j].val = filters[i].value

\* C25: resolved_filters of one call holds at most one owner filter (hubspot_owner_id and
\* company_owner counted together), at most one account_status filter, at most one
\* industry filter and at most one customer_tier filter
C25_OneFilterPerCategory ==
    pc # "idle" =>
        /\ Len(FiltersOn(P_hubspot_owner_id)) + Len(FiltersOn(P_company_owner)) <= 1
        /\ Len(FiltersOn(P_account_status)) <= 1
        /\ Len(FiltersOn(P_industry)) <= 1
        /\ Len(FiltersOn(P_customer_tier)) <= 1

\* A call in whose query several owner labels and several status labels occur, with one
\* owner filter and one status filter
C25_Witness ==
    /\ pc = "searching"
    /\ Len(Occurring(P_hubspot_owner_id)) >= 2
    /\ Len(Occurring(P_account_status)) >= 2
    /\ Len(FiltersOn(P_hubspot_owner_id)) + Len(FiltersOn(P_company_owner)) = 1
    /\ Len(FiltersOn(P_account_status)) = 1

\* The properties of the Value Index whose internal name holds a renewal or expiry token
RenewalProperties ==
    {p \in SeqToSet(LabelsOf(CallData.value_mappings)) :
        \E token \in {<<"r","e","n","e","w","a","l">>, <<"r","e","n","e","w">>, <<"n","e","x","t","_">>, <<"d","u","e">>, <<"e","x","p","i","r","e">>} :
            StrIn(token, lower(p))}

\* The query holds a term of the renewal vocabulary
HasRenewalTerm ==
    \E term \in {<<"r","e","n","e","w","a","l">>, <<"r","e","n","e","w">>} : StrIn(term, CallQuery)

DateFilters == SelectSeq(filters, LAMBDA f : f.category = "date")

\* C26: when the query holds a renewal term and the Value Index a renewal property, the
\* flat resolver emits a HAS_PROPERTY filter on such a property; the date category emits
\* no value-equality filter and at most one filter
C26_RenewalTermEmitsHasProperty ==
    (pc # "idle" /\ call.kind = "flat" /\ CallData.loaded) =>
        /\ (HasRenewalTerm /\ RenewalProperties # {}) =>
               \E i \in 1..Len(filters) :
                   /\ filters[i].operator = "HAS_PROPERTY"
                   /\ filters[i].propertyName \in RenewalProperties
        /\ \A i \in 1..Len(DateFilters) : DateFilters[i].operator # "EQ"
        /\ Len(DateFilters) <= 1

\* The properties of the cached group that holds the property
GroupPropertiesOf(prop) ==
    CachedGroups[CHOOSE i \in 1..Len(CachedGroups) :
                    HasKey(CachedGroups[i].val.properties, prop)].val.properties

IsRenewalLabel(label) ==
    StrIn(<<"r","e","n","e","w","a","l">>, lower(label)) \/ StrIn(<<"r","e","n","e","w">>, lower(label))

IsTextingLabel(label) == StrIn(<<"t","e","x","t","i","n","g">>, lower(label))

\* C27: when the group the date filter of a group-scoped call comes from holds a generic
\* renewal property and a texting renewal property, the date filter is on the texting
\* one, whatever the order of the two in the group
C27_TextingVariantFirst ==
    (pc # "idle" /\ call.kind = "hier") =>
        \A i \in 1..Len(DateFilters) :
            LET props == GroupPropertiesOf(DateFilters[i].propertyName)
                texting == \E k \in 1..Len(props) :
                               IsRenewalLabel(props[k].val.label)
                               /\ IsTextingLabel(props[k].val.label)
                generic == \E k \in 1..Len(props) :
                               IsRenewalLabel(props[k].val.label)
                               /\ ~IsTextingLabel(props[k].val.label)
            IN  (texting /\ generic) =>
                    IsTextingLabel(Get(props, DateFilters[i].propertyName).label)

\* C28: every filter of the generic fallback is an equality filter for a label longer than
\* 2 characters that occurs in the query, the only generic filter on its property, and on
\* a property no category resolver has emitted a filter on in the same call
C28_GenericFallbackResidual ==
    (pc # "idle" /\ call.kind = "flat") =>
        \A i \in 1..Len(filters) :
            filters[i].category = "generic" =>
                /\ filters[i].operator = "EQ"
                /\ \E j \in 1..Len(Occurring(filters[i].propertyName)) :
                      /\ Len(Occurring(filters[i].propertyName)[j].key) > 2
                      /\ Occurring(filters[i].propertyName)[j].val = filters[i].value
                /\ \A f \in SeqToSet(FiltersOn(filters[i].propertyName)) : f = filters[i]
                /\ Len(FiltersOn(filters[i].propertyName)) = 1

\* The relevant groups of the call, in rank order, with their properties
CallGroups == identify_relevant_groups(CallData, call.user_query)

\* The category resolvers yield a filter on the i-th relevant group
Yields(i) == GroupFilters(CallQuery, CallGroups[i], call.user_email) # <<>>

\* Some filter of the call is on a property of the i-th relevant group
Contributes(i) ==
    \E k \in 1..Len(filters) : HasKey(CallGroups[i].properties, filters[k].propertyName)

\* C29: the filters of a group-scoped call are all on properties of one relevant group,
\* the highest-ranked one for which a category resolver yields a filter; no other
\* relevant group contributes a filter, and the groups ranked above it yield none
C29_FiltersFromOneGroup ==
    (pc # "idle" /\ call.kind = "hier" /\ filters # <<>>) =>
        \E i \in 1..Len(CallGroups) :
            /\ Yields(i)
            /\ \A j \in 1..(i - 1) : ~Yields(j)
            /\ \A k \in 1..Len(filters) :
                  HasKey(CallGroups[i].properties, filters[k].propertyName)
            /\ \A j \in 1..Len(CallGroups) : j # i => ~Contributes(j)

\* A group-scoped call whose filters come from a group ranked below one that yields none
\* and above one that would have yielded filters too
C29_Witness ==
    /\ pc = "searching" /\ call.kind = "hier" /\ filters # <<>>
    /\ \E h, i, j \in 1..Len(CallGroups) :
          h < i /\ i < j /\ ~Yields(h) /\ Contributes(i) /\ Yields(j)

\* C30: resolved_filters of one call never holds two filters on the same propertyName
C30_OneConditionPerProperty ==
    pc # "idle" =>
        \A i, j \in 1..Len(filters) :
            filters[i].propertyName = filters[j].propertyName => i = j
====
